---- MODULE Spec2Model ----
(***************************************************************************)
(* A model of the m2arm scanner (cli/internal/scanner/scanner.go) and of   *)
(* the `scan` command that drives it (cli/cmd/scan.go).                    *)
(*                                                                         *)
(* Text is modelled at the level of characters: a Go string is a sequence  *)
(* of one-character strings, a path is a sequence of path components, a    *)
(* file is a sequence of lines.  Regular expressions are compiled from the *)
(* pattern text of the rule table and matched by a backtracking matcher.   *)
(***************************************************************************)
EXTENDS Integers, Sequences, FiniteSets, TLC

\* ------------------------------------------------------------------ text

\* The printable ASCII characters in byte order: Ascii[i] is byte i + 31
\* (byte 96, the grave accent, is written by name and occurs in no text here).
Ascii == <<" ", "!", "\"", "#", "$", "%", "&", "'", "(", ")", "*", "+", ",", "-", ".", "/",
           "0", "1", "2", "3", "4", "5", "6", "7", "8", "9", ":", ";", "<", "=", ">", "?",
           "@", "A", "B", "C", "D", "E", "F", "G", "H", "I", "J", "K", "L", "M", "N", "O",
           "P", "Q", "R", "S", "T", "U", "V", "W", "X", "Y", "Z", "[", "\\", "]", "^", "_",
           "GRAVE", "a", "b", "c", "d", "e", "f", "g", "h", "i", "j", "k", "l", "m", "n", "o",
           "p", "q", "r", "s", "t", "u", "v", "w", "x", "y", "z", "{", "|", "}", "~">>

\* the position in Ascii of each of its characters
CodeOf == [c \in {Ascii[i] : i \in 1..Len(Ascii)} |-> CHOOSE i \in 1..Len(Ascii) : Ascii[i] = c]
Code(c) == CodeOf[c]

Digits == {Ascii[i] : i \in 17..26}
Uppers == {Ascii[i] : i \in 34..59}
Lowers == {Ascii[i] : i \in 66..91}

\* strings.ToLower on one character and on a string
ToLowerChar(c) == IF c \in Uppers THEN Ascii[Code(c) + 32] ELSE c
ToLower(s) == [i \in 1..Len(s) |-> ToLowerChar(s[i])]

\* byte-wise string order, as sort.Strings orders directory entries
RECURSIVE StrLess(_, _)
StrLess(a, b) ==
    IF b = <<>> THEN FALSE
    ELSE IF a = <<>> THEN TRUE
    ELSE IF a[1] # b[1] THEN Code(a[1]) < Code(b[1])
    ELSE StrLess(Tail(a), Tail(b))

\* the last index of character c in s, 0 when absent
LastIndex(s, c) ==
    IF \E i \in 1..Len(s) : s[i] = c
    THEN CHOOSE i \in 1..Len(s) : s[i] = c /\ \A j \in (i + 1)..Len(s) : s[j] # c
    ELSE 0

\* filepath.Ext on a path whose last component is `name`: the suffix of the
\* last component starting at its final dot, empty when it has no dot
Ext(name) ==
    LET d == LastIndex(name, ".")
    IN  IF d = 0 THEN <<>> ELSE SubSeq(name, d, Len(name))

\* a variant of filepath.Rel that yields the last component only
Rel_Base(base, path) == <<path[Len(path)]>>

\* filepath.Rel(base, path) for a path below base: the components after base
Rel(base, path) == SubSeq(path, Len(base) + 1, Len(path))

\* filepath.Join(dir, name)
Join(dir, name) == Append(dir, name)

\* ------------------------------------------------- regular expressions

\* regexp.Compile on the subset of the syntax the rule table uses: literal
\* characters, `.`, the escapes \s \w \d and escaped punctuation, each
\* optionally followed by `*` or `+`.  A `{` that opens no repetition count is
\* a literal.  The result is [ok, prog]; ok is FALSE for an expression Go
\* rejects (a repetition with nothing to repeat, a trailing backslash, an
\* unknown escape, an unbalanced bracket).
RECURSIVE ParseFrom(_, _)
ParseFrom(p, i) ==
    IF i > Len(p) THEN [ok |-> TRUE, prog |-> <<>>]
    ELSE
      LET esc == p[i] = "\\"
          bad == \/ esc /\ i = Len(p)
                 \/ esc /\ i < Len(p)
                        /\ p[i + 1] \in (Digits \cup Uppers \cup Lowers) \ {"s", "w", "d"}
                 \/ ~esc /\ p[i] \in {"*", "+", "?", "(", ")", "["}
          cls == IF esc /\ i < Len(p) /\ p[i + 1] = "s" THEN "space"
                 ELSE IF esc /\ i < Len(p) /\ p[i + 1] = "w" THEN "word"
                 ELSE IF esc /\ i < Len(p) /\ p[i + 1] = "d" THEN "digit"
                 ELSE IF ~esc /\ p[i] = "." THEN "any"
                 ELSE "lit"
          ch  == IF esc /\ i < Len(p) THEN p[i + 1] ELSE p[i]
          q   == IF esc THEN i + 2 ELSE i + 1
          rep == IF q <= Len(p) /\ p[q] = "*" THEN "star"
                 ELSE IF q <= Len(p) /\ p[q] = "+" THEN "plus"
                 ELSE "one"
          nxt == IF rep = "one" THEN q ELSE q + 1
          rest == ParseFrom(p, nxt)
      IN  IF bad THEN [ok |-> FALSE, prog |-> <<>>]
          ELSE [ok |-> rest.ok,
                prog |-> <<[cls |-> cls, ch |-> ch, rep |-> rep]>> \o rest.prog]

Compile(p) == ParseFrom(p, 1)

\* whether one character is in the class of an atom
AtomMatches(a, c) ==
    CASE a.cls = "lit"   -> c = a.ch
      [] a.cls = "any"   -> c # "\n"
      [] a.cls = "space" -> c \in {" ", "\t", "\n", "\r", "\f"}
      [] a.cls = "digit" -> c \in Digits
      [] a.cls = "word"  -> c \in Digits \cup Uppers \cup Lowers \cup {"_"}

\* the number of consecutive characters of `line` from position j in a's class
RECURSIVE MaxRun(_, _, _)
MaxRun(a, line, j) ==
    IF j <= Len(line) /\ AtomMatches(a, line[j]) THEN 1 + MaxRun(a, line, j + 1) ELSE 0

\* the position after the match of prog[k..] starting at position j of line,
\* 0 when there is none; repetitions are greedy and backtrack
RECURSIVE MatchHere(_, _, _, _)
RECURSIVE TryRep(_, _, _, _, _)
MatchHere(prog, k, line, j) ==
    IF k > Len(prog) THEN j
    ELSE IF prog[k].rep = "one"
         THEN IF j <= Len(line) /\ AtomMatches(prog[k], line[j])
              THEN MatchHere(prog, k + 1, line, j + 1)
              ELSE 0
         ELSE TryRep(prog, k, line, j, MaxRun(prog[k], line, j))

TryRep(prog, k, line, j, n) ==
    IF n < (IF prog[k].rep = "plus" THEN 1 ELSE 0) THEN 0
    ELSE LET r == MatchHere(prog, k + 1, line, j + n)
         IN  IF r # 0 THEN r ELSE TryRep(prog, k, line, j, n - 1)

\* Regexp.FindString: the text of the leftmost match, "" when there is none
RECURSIVE FindFrom(_, _, _)
FindFrom(prog, line, i) ==
    IF i > Len(line) + 1 THEN <<>>
    ELSE LET r == MatchHere(prog, 1, line, i)
         IN  IF r # 0 THEN SubSeq(line, i, r - 1) ELSE FindFrom(prog, line, i + 1)

FindString(prog, line) == FindFrom(prog, line, 1)

\* ------------------------------------------------- the scanner's tables

\* Scanner.patterns: category -> the expressions of the category, in order
patterns ==
    [inline_assembly |-> <<
        \* __asm__\s*\(
        <<"_", "_", "a", "s", "m", "_", "_", "\\", "s", "*", "\\", "(">>,
        \* asm\s*\(
        <<"a", "s", "m", "\\", "s", "*", "\\", "(">>,
        \* _asm\s*{
        <<"_", "a", "s", "m", "\\", "s", "*", "{">> >>,
     x86_intrinsics |-> <<
        \* #include\s*<.*mmintrin\.h.*>
        <<"#", "i", "n", "c", "l", "u", "d", "e", "\\", "s", "*", "<", ".", "*",
          "m", "m", "i", "n", "t", "r", "i", "n", "\\", ".", "h", ".", "*", ">">>,
        \* #include\s*<.*xmmintrin\.h.*>
        <<"#", "i", "n", "c", "l", "u", "d", "e", "\\", "s", "*", "<", ".", "*",
          "x", "m", "m", "i", "n", "t", "r", "i", "n", "\\", ".", "h", ".", "*", ">">>,
        \* #include\s*<.*emmintrin\.h.*>
        <<"#", "i", "n", "c", "l", "u", "d", "e", "\\", "s", "*", "<", ".", "*",
          "e", "m", "m", "i", "n", "t", "r", "i", "n", "\\", ".", "h", ".", "*", ">">>,
        \* #include\s*<.*pmmintrin\.h.*>
        <<"#", "i", "n", "c", "l", "u", "d", "e", "\\", "s", "*", "<", ".", "*",
          "p", "m", "m", "i", "n", "t", "r", "i", "n", "\\", ".", "h", ".", "*", ">">>,
        \* #include\s*<.*immintrin\.h.*>
        <<"#", "i", "n", "c", "l", "u", "d", "e", "\\", "s", "*", "<", ".", "*",
          "i", "m", "m", "i", "n", "t", "r", "i", "n", "\\", ".", "h", ".", "*", ">">>,
        \* _mm_\w+
        <<"_", "m", "m", "_", "\\", "w", "+">>,
        \* _mm\d+_\w+
        <<"_", "m", "m", "\\", "d", "+", "_", "\\", "w", "+">> >>,
     architecture_checks |-> <<
        \* #ifdef\s+_M_X64
        <<"#", "i", "f", "d", "e", "f", "\\", "s", "+", "_", "M", "_", "X", "6", "4">>,
        \* #ifdef\s+__x86_64__
        <<"#", "i", "f", "d", "e", "f", "\\", "s", "+",
          "_", "_", "x", "8", "6", "_", "6", "4", "_", "_">>,
        \* #ifdef\s+_M_IX86
        <<"#", "i", "f", "d", "e", "f", "\\", "s", "+", "_", "M", "_", "I", "X", "8", "6">>,
        \* #ifdef\s+__i386__
        <<"#", "i", "f", "d", "e", "f", "\\", "s", "+",
          "_", "_", "i", "3", "8", "6", "_", "_">> >>,
     platform_specific |-> <<
        \* GetSystemInfo
        <<"G", "e", "t", "S", "y", "s", "t", "e", "m", "I", "n", "f", "o">>,
        \* IsWow64Process
        <<"I", "s", "W", "o", "w", "6", "4", "P", "r", "o", "c", "e", "s", "s">>,
        \* SYSTEM_INFO
        <<"S", "Y", "S", "T", "E", "M", "_", "I", "N", "F", "O">> >>]

\* the keys of Scanner.patterns, and the order in which New writes them
Categories == DOMAIN patterns
CategoryOrder ==
    <<"inline_assembly", "x86_intrinsics", "architecture_checks", "platform_specific">>

\* Scanner.extensions: the keys mapped to true
extensions ==
    { <<".", "c">>, <<".", "c", "p", "p">>, <<".", "c", "c">>, <<".", "c", "x", "x">>,
      <<".", "h">>, <<".", "h", "p", "p">>, <<".", "h", "x", "x">>, <<".", "p", "y">>,
      <<".", "g", "o">>, <<".", "r", "s">>, <<".", "j", "a", "v", "a">>, <<".", "c", "s">>,
      <<".", "j", "s">>, <<".", "t", "s">>, <<".", "j", "s", "x">>, <<".", "t", "s", "x">> }

\* the directory names getSourceFiles does not descend into
SkipDirs ==
    { <<".", "g", "i", "t">>,
      <<"_", "_", "p", "y", "c", "a", "c", "h", "e", "_", "_">>,
      <<"n", "o", "d", "e", "_", "m", "o", "d", "u", "l", "e", "s">>,
      <<".", "v", "e", "n", "v">>,
      <<"v", "e", "n", "v">>,
      <<"b", "u", "i", "l", "d">>,
      <<"d", "i", "s", "t">>,
      <<".", "t", "o", "x">>,
      <<".", "p", "y", "t", "e", "s", "t", "_", "c", "a", "c", "h", "e">> }

\* scanBuildSystems' buildPatterns: file name -> build system
N_CMakeLists == <<"C", "M", "a", "k", "e", "L", "i", "s", "t", "s", ".", "t", "x", "t">>
N_Makefile == <<"M", "a", "k", "e", "f", "i", "l", "e">>
N_BuildGradle == <<"b", "u", "i", "l", "d", ".", "g", "r", "a", "d", "l", "e">>
N_PomXml == <<"p", "o", "m", ".", "x", "m", "l">>
N_PackageJson == <<"p", "a", "c", "k", "a", "g", "e", ".", "j", "s", "o", "n">>
N_CargoToml == <<"C", "a", "r", "g", "o", ".", "t", "o", "m", "l">>
N_GoMod == <<"g", "o", ".", "m", "o", "d">>
N_Requirements ==
    <<"r", "e", "q", "u", "i", "r", "e", "m", "e", "n", "t", "s", ".", "t", "x", "t">>

BuildNames ==
    {N_CMakeLists, N_Makefile, N_BuildGradle, N_PomXml, N_PackageJson, N_CargoToml, N_GoMod}

buildPatterns ==
    [n \in BuildNames |->
        CASE n = N_CMakeLists  -> "cmake"
          [] n = N_Makefile    -> "make"
          [] n = N_BuildGradle -> "gradle"
          [] n = N_PomXml      -> "maven"
          [] n = N_PackageJson -> "npm"
          [] n = N_CargoToml   -> "cargo"
          [] n = N_GoMod       -> "go_modules"]

\* Scanner.getSeverity with x86_intrinsics missing from the severity map
getSeverity_MissingKey(category) ==
    LET severityMap == [inline_assembly |-> "high",
                        architecture_checks |-> "medium", platform_specific |-> "medium"]
    IN  IF category \in DOMAIN severityMap THEN severityMap[category] ELSE "low"

\* Scanner.getSeverity
getSeverity(category) ==
    LET severityMap == [inline_assembly |-> "high", x86_intrinsics |-> "high",
                        architecture_checks |-> "medium", platform_specific |-> "medium"]
    IN  IF category \in DOMAIN severityMap THEN severityMap[category] ELSE "low"

\* Scanner.getSuggestion
getSuggestion(category, matchedText) ==
    LET suggestions ==
          [inline_assembly |-> "Replace with portable C/C++ code or use ARM NEON intrinsics",
           x86_intrinsics |-> "Replace with ARM NEON equivalents or portable alternatives",
           architecture_checks |-> "Add ARM architecture checks or use runtime detection",
           platform_specific |->
               "Use cross-platform alternatives or add ARM-specific implementations"]
    IN  IF category \in DOMAIN suggestions THEN suggestions[category]
        ELSE "Review for ARM compatibility"

\* --------------------------------------------------- scanning one line

\* a variant of scanFile's loop over the expressions that leaves the loop at
\* an expression that does not compile
RECURSIVE MatchRules_StopsAtInvalid(_, _, _, _, _, _)
MatchRules_StopsAtInvalid(rules, relPath, lineNum, line, category, k) ==
    IF k > Len(rules) THEN <<>>
    ELSE LET pattern == rules[k]
             regex == Compile(pattern)
             match == IF regex.ok THEN FindString(regex.prog, line) ELSE <<>>
             rest == MatchRules_StopsAtInvalid(rules, relPath, lineNum, line, category, k + 1)
         IN  IF ~regex.ok THEN <<>>
             ELSE IF match # <<>>
             THEN <<[File |-> relPath, Line |-> lineNum, Category |-> category,
                     Pattern |-> pattern, MatchedText |-> match,
                     Severity |-> getSeverity(category),
                     Suggestion |-> getSuggestion(category, match)]>> \o rest
             ELSE rest

\* scanFile's loop over the expressions `rules` of one category on one line:
\* every expression that compiles and matches appends an Issue, and one that
\* does not compile is passed over
RECURSIVE MatchRules(_, _, _, _, _, _)
MatchRules(rules, relPath, lineNum, line, category, k) ==
    IF k > Len(rules) THEN <<>>
    ELSE LET pattern == rules[k]
             regex == Compile(pattern)
             match == IF regex.ok THEN FindString(regex.prog, line) ELSE <<>>
             rest == MatchRules(rules, relPath, lineNum, line, category, k + 1)
         IN  IF regex.ok /\ match # <<>>
             THEN <<[File |-> relPath, Line |-> lineNum, Category |-> category,
                     Pattern |-> pattern, MatchedText |-> match,
                     Severity |-> getSeverity(category),
                     Suggestion |-> getSuggestion(category, match)]>> \o rest
             ELSE rest

\* the loop over the expressions of the rule table, from the k-th on
MatchPatterns(relPath, lineNum, line, category, k) ==
    MatchRules(patterns[category], relPath, lineNum, line, category, k)

\* what scanFile's loop over the expressions yields for each category on one
\* line: the set of the pairs <<category, Issues>>
CategoryHits(relPath, lineNum, line) ==
    {<<category, MatchPatterns(relPath, lineNum, line, category, 1)>> :
        category \in Categories}

\* scanFile's loop over the categories on one line, the map being ranged over
\* in the order `order`: hits is CategoryHits of the line
RECURSIVE LineIssues(_, _)
LineIssues(hits, order) ==
    IF order = <<>> THEN <<>>
    ELSE (CHOOSE h \in hits : h[1] = Head(order))[2] \o LineIssues(hits, Tail(order))

\* the orders a `range` over a map with key set S may take
Orders(S) == {o \in [1..Cardinality(S) -> S] : \A i, j \in DOMAIN o : i # j => o[i] # o[j]}

CategoryOrders == Orders(Categories)

\* ------------------------------------------------------ the file system

\* A tree maps each existing absolute path (a sequence of components) to
\*   [kind  : "dir" or "file",
\*    lines : the lines of a file,
\*    fault : "none", "lstat" (lstat on the entry fails), "perm" (a directory
\*            that cannot be listed, a file that cannot be opened), or "read"
\*            (reading the file fails after `after` lines were delivered),
\*    after : see "read"].
\* A path outside the domain does not exist.

\* FileInfo.Name(): the last component of a path
Name(path) == path[Len(path)]

Children(tree, dir) ==
    {p \in DOMAIN tree : Len(p) = Len(dir) + 1 /\ SubSeq(p, 1, Len(dir)) = dir}

RECURSIVE SortNames(_)
SortNames(S) ==
    IF S = {} THEN <<>>
    ELSE LET m == CHOOSE x \in S : \A y \in S \ {x} : StrLess(x, y)
         IN  <<m>> \o SortNames(S \ {m})

\* filepath's readDirNames: the names of the entries of dir, sorted
readDirNames(tree, dir) == SortNames({Name(p) : p \in Children(tree, dir)})

\* The two callbacks handed to filepath.Walk.  Each takes the slice it appends
\* to and returns [acc, err], err being "nil", "SkipDir" or the errno of the
\* failed system call ("ENOENT", "EACCES").

\* a variant of the callback of getSourceFiles that compares the extension as
\* it is written
SourceFileFn_CaseSensitive(files, path, info, err) ==
    IF err # "nil" THEN [acc |-> files, err |-> err]
    ELSE IF info.kind = "dir"
         THEN IF Name(path) \in SkipDirs
              THEN [acc |-> files, err |-> "SkipDir"]
              ELSE [acc |-> files, err |-> "nil"]
         ELSE IF Ext(Name(path)) \in extensions
              THEN [acc |-> Append(files, path), err |-> "nil"]
              ELSE [acc |-> files, err |-> "nil"]

\* a variant of the callback of getSourceFiles that descends into every directory
SourceFileFn_NoSkip(files, path, info, err) ==
    IF err # "nil" THEN [acc |-> files, err |-> err]
    ELSE IF info.kind = "dir" THEN [acc |-> files, err |-> "nil"]
    ELSE IF ToLower(Ext(Name(path))) \in extensions
         THEN [acc |-> Append(files, path), err |-> "nil"]
         ELSE [acc |-> files, err |-> "nil"]

\* the callback of getSourceFiles
SourceFileFn(files, path, info, err) ==
    IF err # "nil" THEN [acc |-> files, err |-> err]
    ELSE IF info.kind = "dir"
         THEN IF Name(path) \in SkipDirs
              THEN [acc |-> files, err |-> "SkipDir"]
              ELSE [acc |-> files, err |-> "nil"]
         ELSE IF ToLower(Ext(Name(path))) \in extensions
              THEN [acc |-> Append(files, path), err |-> "nil"]
              ELSE [acc |-> files, err |-> "nil"]

\* the callback of scanBuildSystems, for one entry (pattern, system) of the table
BuildSystemFn(projectPath, pattern, system, buildSystems, path, info, err) ==
    IF err # "nil" THEN [acc |-> buildSystems, err |-> err]
    ELSE IF info.kind # "dir" /\ Name(path) = pattern
         THEN [acc |-> Append(buildSystems,
                              [File |-> Rel(projectPath, path), System |-> system,
                               NeedsReview |-> TRUE]),
               err |-> "nil"]
         ELSE [acc |-> buildSystems, err |-> "nil"]

\* ctx selects the callback: [fn |-> "source"] or
\* [fn |-> "build", projectPath, pattern, system]
WalkFn(ctx, acc, path, info, err) ==
    IF ctx.fn = "source" THEN SourceFileFn(acc, path, info, err)
    ELSE BuildSystemFn(ctx.projectPath, ctx.pattern, ctx.system, acc, path, info, err)

NoInfo == [kind |-> "none"]

\* filepath.walk and filepath.Walk
RECURSIVE walk(_, _, _, _)
RECURSIVE walkNames(_, _, _, _, _)
walk(tree, ctx, path, acc) ==
    LET info == tree[path]
    IN  IF info.kind # "dir" THEN WalkFn(ctx, acc, path, info, "nil")
        ELSE LET err == IF info.fault = "perm" THEN "EACCES" ELSE "nil"
                 r1 == WalkFn(ctx, acc, path, info, err)
             IN  IF err # "nil" \/ r1.err # "nil" THEN r1
                 ELSE walkNames(tree, ctx, path, readDirNames(tree, path), r1.acc)

walkNames(tree, ctx, dir, names, acc) ==
    IF names = <<>> THEN [acc |-> acc, err |-> "nil"]
    ELSE LET filename == Join(dir, Head(names))
             lstatFails == tree[filename].fault = "lstat"
             r == IF lstatFails THEN WalkFn(ctx, acc, filename, NoInfo, "EACCES")
                  ELSE walk(tree, ctx, filename, acc)
             stop == IF lstatFails THEN r.err \notin {"nil", "SkipDir"}
                     ELSE r.err # "nil" /\ (tree[filename].kind # "dir" \/ r.err # "SkipDir")
         IN  IF stop THEN r ELSE walkNames(tree, ctx, dir, Tail(names), r.acc)

Walk(tree, ctx, root, acc) ==
    LET r == IF root \notin DOMAIN tree THEN WalkFn(ctx, acc, root, NoInfo, "ENOENT")
             ELSE walk(tree, ctx, root, acc)
    IN  IF r.err = "SkipDir" THEN [acc |-> r.acc, err |-> "nil"] ELSE r

\* a variant of getSourceFiles that does not test the name of the root
getSourceFiles_RootNotTested(tree, projectPath) ==
    IF projectPath \in DOMAIN tree /\ tree[projectPath].kind = "dir"
       /\ tree[projectPath].fault = "none" /\ Name(projectPath) \in SkipDirs
    THEN walkNames(tree, [fn |-> "source"], projectPath,
                   readDirNames(tree, projectPath), <<>>)
    ELSE Walk(tree, [fn |-> "source"], projectPath, <<>>)

\* Scanner.getSourceFiles: [acc: the files, err]
getSourceFiles(tree, projectPath) == Walk(tree, [fn |-> "source"], projectPath, <<>>)

\* filepath.Glob on a pattern without metacharacters: the path when lstat succeeds
Glob(tree, path) ==
    IF path \in DOMAIN tree /\ tree[path].fault # "lstat" THEN <<path>> ELSE <<>>

\* the body of scanBuildSystems' loop for one entry of buildPatterns: the root
\* match of Glob, then every match of the walk (whose error is dropped)
RECURSIVE GlobMatches(_, _, _)
GlobMatches(projectPath, system, matches) ==
    IF matches = <<>> THEN <<>>
    ELSE <<[File |-> Rel(projectPath, Head(matches)), System |-> system,
            NeedsReview |-> TRUE]>> \o GlobMatches(projectPath, system, Tail(matches))

BuildSystemsOf(tree, projectPath, pattern, buildSystems) ==
    LET system == buildPatterns[pattern]
        matches == Glob(tree, Join(projectPath, pattern))
        afterGlob == buildSystems \o GlobMatches(projectPath, system, matches)
    IN  Walk(tree, [fn |-> "build", projectPath |-> projectPath, pattern |-> pattern,
                    system |-> system], projectPath, afterGlob).acc

\* ------------------------------------------------------- reading files

\* os.Open fails on a missing path and on a file that cannot be opened
OpenFails(tree, path) ==
    path \notin DOMAIN tree \/ tree[path].fault \in {"lstat", "perm"}

\* the lines bufio.Scanner delivers before it stops, and whether it stopped on
\* an error (Scanner.Err() # nil); reading an opened directory fails at once
Delivered(tree, path) ==
    IF tree[path].kind = "dir" THEN <<>>
    ELSE IF tree[path].fault = "read" THEN SubSeq(tree[path].lines, 1, tree[path].after)
    ELSE tree[path].lines

ReadErr(tree, path) == tree[path].kind = "dir" \/ tree[path].fault = "read"

\* ------------------------------------------------------- dependencies

\* the white space strings.TrimSpace and strings.Fields strip (of ASCII; the
\* vertical tab, which has no escape here, occurs in no text of the model)
IsSpace(c) == c \in {" ", "\t", "\n", "\r", "\f"}

\* strings.TrimSpace
RECURSIVE TrimLeft(_)
TrimLeft(s) == IF s # <<>> /\ IsSpace(s[1]) THEN TrimLeft(Tail(s)) ELSE s
RECURSIVE TrimRight(_)
TrimRight(s) ==
    IF s # <<>> /\ IsSpace(s[Len(s)]) THEN TrimRight(SubSeq(s, 1, Len(s) - 1)) ELSE s
TrimSpace(s) == TrimRight(TrimLeft(s))

\* strings.HasPrefix
HasPrefix(s, prefix) == Len(s) >= Len(prefix) /\ SubSeq(s, 1, Len(prefix)) = prefix

\* strings.Index (1-based, 0 when absent) and strings.Contains
Index(s, sub) ==
    LET at == {i \in 1..(Len(s) - Len(sub) + 1) : SubSeq(s, i, i + Len(sub) - 1) = sub}
    IN  IF at = {} THEN 0 ELSE CHOOSE i \in at : \A j \in at : i <= j
Contains(s, sub) == Index(s, sub) # 0

\* strings.Split for a non-empty separator
RECURSIVE Split(_, _)
Split(s, sep) ==
    LET i == Index(s, sep)
    IN  IF i = 0 THEN <<s>>
        ELSE <<SubSeq(s, 1, i - 1)>> \o Split(SubSeq(s, i + Len(sep), Len(s)), sep)

\* strings.Fields
RECURSIVE Fields(_)
RECURSIVE WordLen(_)
WordLen(s) == IF s # <<>> /\ ~IsSpace(s[1]) THEN 1 + WordLen(Tail(s)) ELSE 0
Fields(s) ==
    LET t == TrimLeft(s)
        n == WordLen(t)
    IN  IF t = <<>> THEN <<>> ELSE <<SubSeq(t, 1, n)>> \o Fields(SubSeq(t, n + 1, Len(t)))

\* One result of a dependency scanner: [deps, err]
NoDeps == [deps |-> <<>>, err |-> "error"]

\* a variant of scanNpmDependencies that opens package.json
scanNpmDependencies_Opens(tree, projectPath) ==
    LET packageJsonPath == Join(projectPath, N_PackageJson)
    IN  IF OpenFails(tree, packageJsonPath) THEN NoDeps
        ELSE [deps |-> <<[Name |-> "npm-dependencies", Version |-> "detected",
                          Type |-> "npm", ARMCompatible |-> "unknown"]>>,
              err |-> "nil"]

\* Scanner.scanNpmDependencies
scanNpmDependencies(tree, projectPath) ==
    LET packageJsonPath == Join(projectPath, N_PackageJson)
    IN  IF packageJsonPath \notin DOMAIN tree THEN NoDeps
        ELSE [deps |-> <<[Name |-> "npm-dependencies", Version |-> "detected",
                          Type |-> "npm", ARMCompatible |-> "unknown"]>>,
              err |-> "nil"]

\* a variant of scanCargoDependencies that marks its Dependency compatible
scanCargoDependencies_Compatible(tree, projectPath) ==
    LET cargoTomlPath == Join(projectPath, N_CargoToml)
    IN  IF cargoTomlPath \notin DOMAIN tree THEN NoDeps
        ELSE [deps |-> <<[Name |-> "cargo-dependencies", Version |-> "detected",
                          Type |-> "cargo", ARMCompatible |-> "yes"]>>,
              err |-> "nil"]

\* Scanner.scanCargoDependencies
scanCargoDependencies(tree, projectPath) ==
    LET cargoTomlPath == Join(projectPath, N_CargoToml)
    IN  IF cargoTomlPath \notin DOMAIN tree THEN NoDeps
        ELSE [deps |-> <<[Name |-> "cargo-dependencies", Version |-> "detected",
                          Type |-> "cargo", ARMCompatible |-> "unknown"]>>,
              err |-> "nil"]

\* a variant of scanPythonDependencies' loop that drops the `>=` of a lower bound
RECURSIVE PythonLines_BareLowerBound(_)
PythonLines_BareLowerBound(lines) ==
    IF lines = <<>> THEN <<>>
    ELSE
      LET line == TrimSpace(Head(lines))
          eq == <<"=", "=">>
          ge == <<">", "=">>
          parts == IF Contains(line, eq) THEN Split(line, eq) ELSE Split(line, ge)
          name == IF Contains(line, eq) \/ Contains(line, ge) THEN TrimSpace(parts[1])
                  ELSE line
          version == IF Contains(line, eq) \/ Contains(line, ge)
                     THEN (IF Len(parts) > 1 THEN TrimSpace(parts[2]) ELSE <<>>)
                     ELSE <<"*">>
      IN  IF line = <<>> \/ HasPrefix(line, <<"#">>)
          THEN PythonLines_BareLowerBound(Tail(lines))
          ELSE <<[Name |-> name, Version |-> version, Type |-> "python",
                  ARMCompatible |-> "unknown"]>> \o PythonLines_BareLowerBound(Tail(lines))

\* the body of scanPythonDependencies' loop: the Dependencies of the lines
RECURSIVE PythonLines(_)
PythonLines(lines) ==
    IF lines = <<>> THEN <<>>
    ELSE
      LET line == TrimSpace(Head(lines))
          eq == <<"=", "=">>
          ge == <<">", "=">>
          parts == IF Contains(line, eq) THEN Split(line, eq) ELSE Split(line, ge)
          name == IF Contains(line, eq) \/ Contains(line, ge) THEN TrimSpace(parts[1])
                  ELSE line
          version == IF Contains(line, eq)
                     THEN (IF Len(parts) > 1 THEN TrimSpace(parts[2]) ELSE <<>>)
                     ELSE IF Contains(line, ge)
                     THEN (IF Len(parts) > 1 THEN ge \o TrimSpace(parts[2]) ELSE <<>>)
                     ELSE <<"*">>
      IN  IF line = <<>> \/ HasPrefix(line, <<"#">>) THEN PythonLines(Tail(lines))
          ELSE <<[Name |-> name, Version |-> version, Type |-> "python",
                  ARMCompatible |-> "unknown"]>> \o PythonLines(Tail(lines))

\* Scanner.scanPythonDependencies
scanPythonDependencies(tree, projectPath) ==
    LET requirementsPath == Join(projectPath, N_Requirements)
    IN  IF OpenFails(tree, requirementsPath) THEN NoDeps
        ELSE [deps |-> PythonLines(Delivered(tree, requirementsPath)),
              err |-> IF ReadErr(tree, requirementsPath) THEN "error" ELSE "nil"]

\* the body of scanGoDependencies' loop, inRequireBlock being the loop's state
RECURSIVE GoLines(_, _)
GoLines(lines, inRequireBlock) ==
    IF lines = <<>> THEN <<>>
    ELSE
      LET line == TrimSpace(Head(lines))
          parts == Fields(line)
      IN  IF HasPrefix(line, <<"r", "e", "q", "u", "i", "r", "e", " ", "(">>)
          THEN GoLines(Tail(lines), TRUE)
          ELSE IF inRequireBlock /\ line = <<")">>
          THEN GoLines(Tail(lines), FALSE)
          ELSE IF inRequireBlock /\ line # <<>> /\ ~HasPrefix(line, <<"/", "/">>)
                  /\ Len(parts) >= 2
          THEN <<[Name |-> parts[1], Version |-> parts[2], Type |-> "go",
                  ARMCompatible |-> "unknown"]>> \o GoLines(Tail(lines), inRequireBlock)
          ELSE GoLines(Tail(lines), inRequireBlock)

\* a variant of scanGoDependencies whose loop starts inside the require block
scanGoDependencies_StartsInside(tree, projectPath) ==
    LET goModPath == Join(projectPath, N_GoMod)
    IN  IF OpenFails(tree, goModPath) THEN NoDeps
        ELSE [deps |-> GoLines(Delivered(tree, goModPath), TRUE),
              err |-> IF ReadErr(tree, goModPath) THEN "error" ELSE "nil"]

\* Scanner.scanGoDependencies
scanGoDependencies(tree, projectPath) ==
    LET goModPath == Join(projectPath, N_GoMod)
    IN  IF OpenFails(tree, goModPath) THEN NoDeps
        ELSE [deps |-> GoLines(Delivered(tree, goModPath), FALSE),
              err |-> IF ReadErr(tree, goModPath) THEN "error" ELSE "nil"]

\* a variant of scanDependencies that looks at go.mod before Cargo.toml
scanDependencies_GoBeforeCargo(tree, projectPath) ==
    LET npm == scanNpmDependencies(tree, projectPath)
        py == scanPythonDependencies(tree, projectPath)
        cargo == scanCargoDependencies(tree, projectPath)
        go == scanGoDependencies(tree, projectPath)
    IN  (IF npm.err = "nil" THEN npm.deps ELSE <<>>)
        \o (IF py.err = "nil" THEN py.deps ELSE <<>>)
        \o (IF go.err = "nil" THEN go.deps ELSE <<>>)
        \o (IF cargo.err = "nil" THEN cargo.deps ELSE <<>>)

\* a variant of scanDependencies that gives up at the first extractor that
\* returns an error
scanDependencies_StopsAtError(tree, projectPath) ==
    LET npm == scanNpmDependencies(tree, projectPath)
        py == scanPythonDependencies(tree, projectPath)
        cargo == scanCargoDependencies(tree, projectPath)
        go == scanGoDependencies(tree, projectPath)
    IN  IF npm.err # "nil" THEN <<>>
        ELSE IF py.err # "nil" THEN npm.deps
        ELSE IF cargo.err # "nil" THEN npm.deps \o py.deps
        ELSE IF go.err # "nil" THEN npm.deps \o py.deps \o cargo.deps
        ELSE npm.deps \o py.deps \o cargo.deps \o go.deps

\* Scanner.scanDependencies: the result of each scanner is appended when it
\* returned no error
scanDependencies(tree, projectPath) ==
    LET npm == scanNpmDependencies(tree, projectPath)
        py == scanPythonDependencies(tree, projectPath)
        cargo == scanCargoDependencies(tree, projectPath)
        go == scanGoDependencies(tree, projectPath)
    IN  (IF npm.err = "nil" THEN npm.deps ELSE <<>>)
        \o (IF py.err = "nil" THEN py.deps ELSE <<>>)
        \o (IF cargo.err = "nil" THEN cargo.deps ELSE <<>>)
        \o (IF go.err = "nil" THEN go.deps ELSE <<>>)

\* ----------------------------------------------------- recommendations

\* A recommendation is its format string and the number formatted into it
\* (the text before each message is an emoji, left out).
Rec(fmt, args) == [fmt |-> fmt, args |-> args]

\* a variant of generateRecommendations that adds the high-severity message
\* whenever there is an Issue
generateRecommendations_HighAlways(results) ==
    LET issueCount == Len(results.Issues)
        highSeverityCount ==
            Cardinality({i \in 1..Len(results.Issues) : results.Issues[i].Severity = "high"})
        buildSystemTypes ==
            {results.BuildSystems[i].System : i \in 1..Len(results.BuildSystems)}
        depCount == Len(results.Dependencies)
    IN  (IF issueCount = 0
         THEN <<Rec("No obvious x86-specific code detected", <<>>)>>
         ELSE <<Rec("Found %d potential compatibility issues", <<issueCount>>),
                Rec("%d high-severity issues require immediate attention",
                    <<highSeverityCount>>)>>)
        \o (IF "cmake" \in buildSystemTypes
            THEN <<Rec("CMake detected - review CMakeLists.txt for architecture-specific settings",
                       <<>>)>>
            ELSE <<>>)
        \o (IF "make" \in buildSystemTypes
            THEN <<Rec("Makefile detected - review for architecture-specific compiler flags",
                       <<>>)>>
            ELSE <<>>)
        \o (IF depCount > 0
            THEN <<Rec("%d dependencies found - verify ARM compatibility", <<depCount>>)>>
            ELSE <<>>)

\* Scanner.generateRecommendations
generateRecommendations(results) ==
    LET issueCount == Len(results.Issues)
        highSeverityCount ==
            Cardinality({i \in 1..Len(results.Issues) : results.Issues[i].Severity = "high"})
        buildSystemTypes ==
            {results.BuildSystems[i].System : i \in 1..Len(results.BuildSystems)}
        depCount == Len(results.Dependencies)
    IN  (IF issueCount = 0
         THEN <<Rec("No obvious x86-specific code detected", <<>>)>>
         ELSE <<Rec("Found %d potential compatibility issues", <<issueCount>>)>>
              \o (IF highSeverityCount > 0
                  THEN <<Rec("%d high-severity issues require immediate attention",
                             <<highSeverityCount>>)>>
                  ELSE <<>>))
        \o (IF "cmake" \in buildSystemTypes
            THEN <<Rec("CMake detected - review CMakeLists.txt for architecture-specific settings",
                       <<>>)>>
            ELSE <<>>)
        \o (IF "make" \in buildSystemTypes
            THEN <<Rec("Makefile detected - review for architecture-specific compiler flags",
                       <<>>)>>
            ELSE <<>>)
        \o (IF depCount > 0
            THEN <<Rec("%d dependencies found - verify ARM compatibility", <<depCount>>)>>
            ELSE <<>>)

\* ------------------------------------------------------ project trees

\* the number of scans run one after the other on a tree
MaxScans == 2

N_proj == <<"p", "r", "o", "j">>
N_a_c == <<"a", ".", "c">>
N_sub == <<"s", "u", "b">>
N_b_CPP == <<"b", ".", "C", "P", "P">>
N_build == <<"b", "u", "i", "l", "d">>
N_c_c == <<"c", ".", "c">>
N_venv == <<"v", "e", "n", "v">>
N_d_py == <<"d", ".", "p", "y">>
N_e_c == <<"e", ".", "c">>
N_f_c == <<"f", ".", "c">>
N_node_modules == <<"n", "o", "d", "e", "_", "m", "o", "d", "u", "l", "e", "s">>
N_pkg == <<"p", "k", "g">>

\* #include <xmmintrin.h>
L_include ==
    <<"#", "i", "n", "c", "l", "u", "d", "e", " ", "<", "x", "m", "m", "i", "n", "t", "r",
      "i", "n", ".", "h", ">">>
\* asm("nop"); _mm_add_ps(a, b);
L_asm_mm ==
    <<"a", "s", "m", "(", "\"", "n", "o", "p", "\"", ")", ";", " ", "_", "m", "m", "_", "a",
      "d", "d", "_", "p", "s", "(", "a", ",", " ", "b", ")", ";">>
\* #ifdef __x86_64__
L_ifdef ==
    <<"#", "i", "f", "d", "e", "f", " ", "_", "_", "x", "8", "6", "_", "6", "4", "_", "_">>
\* GetSystemInfo(&si);
L_sysinfo ==
    <<"G", "e", "t", "S", "y", "s", "t", "e", "m", "I", "n", "f", "o", "(", "&", "s", "i",
      ")", ";">>
\* __asm__ ("nop");
L_gcc_asm ==
    <<"_", "_", "a", "s", "m", "_", "_", " ", "(", "\"", "n", "o", "p", "\"", ")", ";">>
\* SYSTEM_INFO = 1
L_py ==
    <<"S", "Y", "S", "T", "E", "M", "_", "I", "N", "F", "O", " ", "=", " ", "1">>
\* numpy==1.21.0
L_pin ==
    <<"n", "u", "m", "p", "y", "=", "=", "1", ".", "2", "1", ".", "0">>
\* # pinned
L_comment ==
    <<"#", " ", "p", "i", "n", "n", "e", "d">>
\* requests>=2.0
L_lower ==
    <<"r", "e", "q", "u", "e", "s", "t", "s", ">", "=", "2", ".", "0">>

\* float r[4];
L_decl ==
    <<"f", "l", "o", "a", "t", " ", "r", "[", "4", "]", ";">>
\* // sum of a and b
L_note ==
    <<"/", "/", " ", "s", "u", "m", " ", "o", "f", " ", "a", " ", "a", "n", "d", " ", "b">>
\* {
L_brace ==
    <<"{">>
\* _mm_add_ps(a, b)
L_call ==
    <<"_", "m", "m", "_", "a", "d", "d", "_", "p", "s", "(", "a", ",", " ", "b", ")">>
\* _mm_add_ps(_mm256_castps256_ps128(a), b);
L_nested ==
    <<"_", "m", "m", "_", "a", "d", "d", "_", "p", "s", "(", "_", "m", "m", "2", "5", "6", "_", "c", "a", "s", "t", "p", "s", "2", "5", "6", "_", "p", "s", "1", "2", "8", "(", "a", ")", ",", " ", "b", ")", ";">>
\* flask
L_bare ==
    <<"f", "l", "a", "s", "k">>
\* module m
L_module ==
    <<"m", "o", "d", "u", "l", "e", " ", "m">>
\* require a/b v1.0.0
L_require1 ==
    <<"r", "e", "q", "u", "i", "r", "e", " ", "a", "/", "b", " ", "v", "1", ".", "0", ".", "0">>
\* require (
L_open ==
    <<"r", "e", "q", "u", "i", "r", "e", " ", "(">>
\* <tab>x/y v1.2.3 // indirect
L_dep ==
    <<"\t", "x", "/", "y", " ", "v", "1", ".", "2", ".", "3", " ", "/", "/", " ", "i", "n", "d", "i", "r", "e", "c", "t">>
\* <tab>// tools
L_gocomment ==
    <<"\t", "/", "/", " ", "t", "o", "o", "l", "s">>
\* )
L_close ==
    <<")">>
\* replace (
L_replace ==
    <<"r", "e", "p", "l", "a", "c", "e", " ", "(">>
\* <tab>p/q v9.0.0
L_repl ==
    <<"\t", "p", "/", "q", " ", "v", "9", ".", "0", ".", "0">>
\* a line of blanks
L_blank == <<" ", " ">>

File(lines) == [kind |-> "file", lines |-> lines, fault |-> "none", after |-> 0]
Dir == [kind |-> "dir", lines |-> <<>>, fault |-> "none", after |-> 0]

\* the project directory
Root == <<N_proj>>

P_a_c == <<N_proj, N_a_c>>
P_Makefile == <<N_proj, N_Makefile>>
P_requirements == <<N_proj, N_Requirements>>
P_sub == <<N_proj, N_sub>>
P_b_CPP == <<N_proj, N_sub, N_b_CPP>>
P_sub_venv == <<N_proj, N_sub, N_venv>>
P_d_py == <<N_proj, N_sub, N_venv, N_d_py>>
P_build == <<N_proj, N_build>>
P_c_c == <<N_proj, N_build, N_c_c>>

\* proj/
\*   CMakeLists.txt  Makefile  a.c  requirements.txt
\*   build/c.c
\*   sub/CMakeLists.txt  sub/b.CPP  sub/venv/d.py
BaseTree ==
    (Root :> Dir)
    @@ (<<N_proj, N_CMakeLists>> :> File(<<>>))
    @@ (P_Makefile :> File(<<>>))
    @@ (P_a_c :> File(<<L_include, L_asm_mm>>))
    @@ (P_requirements :> File(<<L_pin, L_comment, L_lower>>))
    @@ (P_build :> Dir)
    @@ (P_c_c :> File(<<L_gcc_asm>>))
    @@ (P_sub :> Dir)
    @@ (<<N_proj, N_sub, N_CMakeLists>> :> File(<<>>))
    @@ (P_b_CPP :> File(<<L_ifdef, L_sysinfo>>))
    @@ (P_sub_venv :> Dir)
    @@ (P_d_py :> File(<<L_py>>))

\* proj/
\*   Cargo.toml  e.c  f.c
\* e.c holds an intrinsic call on line 5 and nothing else a rule matches; f.c
\* holds an intrinsic call whose argument is an intrinsic call of another width
IntrinsicsTree ==
    (Root :> Dir)
    @@ (<<N_proj, N_CargoToml>> :> File(<<L_brace>>))
    @@ (<<N_proj, N_e_c>> :> File(<<L_decl, <<>>, L_note, L_brace, L_call>>))
    @@ (<<N_proj, N_f_c>> :> File(<<L_nested>>))

\* proj/
\*   go.mod  package.json  requirements.txt
\* no source file; package.json cannot be opened
ManifestTree ==
    (Root :> Dir)
    @@ (<<N_proj, N_GoMod>> :>
          File(<<L_module, L_require1, <<>>, L_open, L_dep, L_gocomment, L_blank, L_close,
                 L_replace, L_repl, L_close>>))
    @@ (<<N_proj, N_PackageJson>> :> [File(<<L_brace>>) EXCEPT !.fault = "perm"])
    @@ (P_requirements :> File(<<L_pin, <<>>, L_comment, L_blank, L_bare, L_lower>>))

P_pkg == <<N_proj, N_node_modules, N_pkg>>

P_sub_pkg == <<N_proj, N_sub, N_node_modules, N_pkg>>

\* proj/
\*   Cargo.toml  go.mod  package.json  requirements.txt
\*   node_modules/pkg/c.c  node_modules/pkg/package.json
\*   sub/Cargo.toml  sub/b.CPP  sub/go.mod  sub/requirements.txt
\*   sub/node_modules/pkg/
\*   sub/venv/go.mod
\* the four manifests at the root, and others below it
NestedTree ==
    (Root :> Dir)
    @@ (<<N_proj, N_CargoToml>> :> File(<<L_brace>>))
    @@ (<<N_proj, N_GoMod>> :> File(<<L_module, L_open, L_dep, L_close>>))
    @@ (<<N_proj, N_PackageJson>> :> File(<<L_brace>>))
    @@ (P_requirements :> File(<<L_pin, L_bare>>))
    @@ (<<N_proj, N_node_modules>> :> Dir)
    @@ (P_pkg :> Dir)
    @@ (Join(P_pkg, N_c_c) :> File(<<L_gcc_asm>>))
    @@ (Join(P_pkg, N_PackageJson) :> File(<<L_brace>>))
    @@ (P_sub :> Dir)
    @@ (Join(P_sub, N_CargoToml) :> File(<<L_brace>>))
    @@ (P_b_CPP :> File(<<L_ifdef>>))
    @@ (Join(P_sub, N_GoMod) :> File(<<L_open, L_repl, L_close>>))
    @@ (Join(P_sub, N_node_modules) :> Dir)
    @@ (P_sub_pkg :> Dir)
    @@ (Join(P_sub, N_Requirements) :> File(<<L_lower>>))
    @@ (P_sub_venv :> Dir)
    @@ (Join(P_sub_venv, N_GoMod) :> File(<<L_module>>))

IsPrefix(p, q) == Len(p) <= Len(q) /\ SubSeq(q, 1, Len(p)) = p

\* the tree without the entries of `gone` and everything below them
Prune(tree, gone) ==
    [p \in {q \in DOMAIN tree : \A g \in gone : ~IsPrefix(g, q)} |-> tree[p]]

\* the tree with one fault injected (none when the entry is absent)
WithFault(tree, f) ==
    IF f.path \in DOMAIN tree
    THEN [tree EXCEPT ![f.path].fault = f.fault, ![f.path].after = f.after]
    ELSE tree

Fault(path, fault, after) == [path |-> path, fault |-> fault, after |-> after]

Faults ==
    { Fault(<<>>, "none", 0),
      Fault(P_b_CPP, "lstat", 0),
      Fault(P_sub, "perm", 0),
      Fault(P_a_c, "perm", 0),
      Fault(P_a_c, "read", 1),
      Fault(P_b_CPP, "read", 0),
      Fault(P_requirements, "perm", 0) }

\* what is removed from the base tree: one descriptor, or the root
Removals == { {P_Makefile}, {Root} }

\* the base tree with one fault, the fault-free tree with one removal, the
\* trees of the intrinsics and of the manifests, and the tree of the nested
\* manifests with sub/node_modules/pkg unreadable
Trees ==
    {WithFault(BaseTree, f) : f \in Faults}
    \cup {Prune(BaseTree, gone) : gone \in Removals}
    \cup {IntrinsicsTree, ManifestTree}
    \cup {WithFault(NestedTree, Fault(P_sub_pkg, "perm", 0))}

\* how the scan is started: by the scan command, with its --recursive flag and
\* the absolute path of the project or of its directory build, or by a caller
\* that constructs a Scanner itself
Invocations ==
    { [entry |-> "cmd", recursive |-> TRUE, path |-> Root],
      [entry |-> "cmd", recursive |-> FALSE, path |-> Root],
      [entry |-> "api", recursive |-> TRUE, path |-> Root],
      [entry |-> "cmd", recursive |-> TRUE, path |-> P_build] }

\* ------------------------------------------------------------- state

VARIABLES
    fs,            \* the project tree
    args,          \* the invocation
    pc,            \* where the run is
    scanner,       \* the Scanner: [projectPath, config], or Nil
    results,       \* Scan's results
    files,         \* Scan's files
    idx,           \* the index in files of the file of the loop
    lineNum,       \* scanFile's lineNum
    issues,        \* scanFile's issues
    remaining,     \* the keys of buildPatterns the range has yet to visit
    buildSystems,  \* scanBuildSystems' buildSystems
    ret,           \* what Scan returned: [called, report, err, cause], cause
                   \* being the error that err wraps
    out,           \* what the command did last: "none", "rendered" or its error
    prev,          \* ret and out of the scan before this one
    clock          \* the time

vars == <<fs, args, pc, scanner, results, files, idx, lineNum, issues, remaining,
          buildSystems, ret, out, prev, clock>>

Nil == [nil |-> TRUE]
NotCalled == [called |-> FALSE, report |-> Nil, err |-> "nil", cause |-> "nil"]

\* sdk.ScanResults as Scan allocates it
NewResults(now) ==
    [ScanTime |-> now, TotalFiles |-> 0, ScannedFiles |-> 0, Issues |-> <<>>,
     BuildSystems |-> <<>>, Dependencies |-> <<>>, Recommendations |-> <<>>]

\* scanner.New
New(projectPath, config) == [projectPath |-> projectPath, config |-> config]

Init ==
    /\ fs \in Trees
    /\ args \in Invocations
    /\ pc = "idle"
    /\ scanner = Nil
    /\ results = Nil
    /\ files = <<>>
    /\ idx = 0
    /\ lineNum = 0
    /\ issues = <<>>
    /\ remaining = {}
    /\ buildSystems = <<>>
    /\ ret = NotCalled
    /\ out = "none"
    /\ prev = Nil
    /\ clock = 0

\* a variant of runScan that makes the Scanner without checking the path
RunScan_NoStat ==
    /\ pc = "idle"
    /\ args.entry = "cmd"
    /\ scanner' = New(args.path, [recursive |-> args.recursive])
    /\ pc' = "ready"
    /\ UNCHANGED <<fs, args, results, files, idx, lineNum, issues, remaining,
                   buildSystems, ret, out, prev, clock>>

\* runScan up to the call of Scan: the path is checked, then the Scanner made
RunScan ==
    /\ pc = "idle"
    /\ args.entry = "cmd"
    /\ IF args.path \notin DOMAIN fs
       THEN /\ out' = "path does not exist"
            /\ pc' = "exit"
            /\ UNCHANGED scanner
       ELSE /\ scanner' = New(args.path, [recursive |-> args.recursive])
            /\ pc' = "ready"
            /\ UNCHANGED out
    /\ UNCHANGED <<fs, args, results, files, idx, lineNum, issues, remaining,
                   buildSystems, ret, prev, clock>>

\* a caller other than the command constructs the Scanner
NewScanner ==
    /\ pc = "idle"
    /\ args.entry = "api"
    /\ scanner' = New(args.path, [recursive |-> args.recursive])
    /\ pc' = "ready"
    /\ UNCHANGED <<fs, args, results, files, idx, lineNum, issues, remaining,
                   buildSystems, ret, out, prev, clock>>

\* a variant of Scan that does not record the number of files found
ScanBegin_TotalUnset ==
    /\ pc = "ready"
    /\ clock' = clock + 1
    /\ LET walked == getSourceFiles(fs, scanner.projectPath)
       IN  IF walked.err # "nil"
           THEN /\ ret' = [called |-> TRUE, report |-> Nil,
                           err |-> "failed to get source files", cause |-> walked.err]
                /\ pc' = "returned"
                /\ results' = NewResults(clock')
                /\ UNCHANGED <<files, idx>>
           ELSE /\ results' = NewResults(clock')
                /\ files' = walked.acc
                /\ idx' = 1
                /\ pc' = "files"
                /\ UNCHANGED ret
    /\ UNCHANGED <<fs, args, scanner, lineNum, issues, remaining, buildSystems, out, prev>>

\* Scan, to the head of its loop over the files
ScanBegin ==
    /\ pc = "ready"
    /\ clock' = clock + 1
    /\ LET walked == getSourceFiles(fs, scanner.projectPath)
       IN  IF walked.err # "nil"
           THEN /\ ret' = [called |-> TRUE, report |-> Nil,
                           err |-> "failed to get source files", cause |-> walked.err]
                /\ pc' = "returned"
                /\ results' = NewResults(clock')
                /\ UNCHANGED <<files, idx>>
           ELSE /\ results' = [NewResults(clock') EXCEPT !.TotalFiles = Len(walked.acc)]
                /\ files' = walked.acc
                /\ idx' = 1
                /\ pc' = "files"
                /\ UNCHANGED ret
    /\ UNCHANGED <<fs, args, scanner, lineNum, issues, remaining, buildSystems, out, prev>>

\* a variant of scanFile that opens the file with os.Create, which truncates it
OpenFile_Creates ==
    /\ pc = "files"
    /\ idx <= Len(files)
    /\ IF OpenFails(fs, files[idx])
       THEN /\ idx' = idx + 1
            /\ UNCHANGED <<pc, lineNum, issues, fs>>
       ELSE /\ pc' = "lines"
            /\ lineNum' = 0
            /\ issues' = <<>>
            /\ fs' = [fs EXCEPT ![files[idx]].lines = <<>>]
            /\ UNCHANGED idx
    /\ UNCHANGED <<args, scanner, results, files, remaining, buildSystems, ret, out,
                   prev, clock>>

\* scanFile opens the file of the loop; when that fails Scan goes to the next
OpenFile ==
    /\ pc = "files"
    /\ idx <= Len(files)
    /\ IF OpenFails(fs, files[idx])
       THEN /\ idx' = idx + 1
            /\ UNCHANGED <<pc, lineNum, issues>>
       ELSE /\ pc' = "lines"
            /\ lineNum' = 0
            /\ issues' = <<>>
            /\ UNCHANGED idx
    /\ UNCHANGED <<fs, args, scanner, results, files, remaining, buildSystems, ret, out,
                   prev, clock>>

\* a variant of scanFile's loop that puts the issues of a line before those of
\* the lines read earlier
ScanLine_Prepends ==
    /\ pc = "lines"
    /\ lineNum < Len(Delivered(fs, files[idx]))
    /\ lineNum' = lineNum + 1
    /\ LET hits == CategoryHits(Rel(scanner.projectPath, files[idx]), lineNum + 1,
                                Delivered(fs, files[idx])[lineNum + 1])
       IN  \E order \in CategoryOrders : issues' = LineIssues(hits, order) \o issues
    /\ UNCHANGED <<fs, args, pc, scanner, results, files, idx, remaining, buildSystems,
                   ret, out, prev, clock>>

\* a variant of scanFile's loop that numbers the lines from 0
ScanLine_FromZero ==
    /\ pc = "lines"
    /\ lineNum < Len(Delivered(fs, files[idx]))
    /\ lineNum' = lineNum + 1
    /\ LET hits == CategoryHits(Rel(scanner.projectPath, files[idx]), lineNum,
                                Delivered(fs, files[idx])[lineNum + 1])
       IN  \E order \in CategoryOrders : issues' = issues \o LineIssues(hits, order)
    /\ UNCHANGED <<fs, args, pc, scanner, results, files, idx, remaining, buildSystems,
                   ret, out, prev, clock>>

\* one turn of scanFile's loop over the lines
ScanLine ==
    /\ pc = "lines"
    /\ lineNum < Len(Delivered(fs, files[idx]))
    /\ lineNum' = lineNum + 1
    /\ LET hits == CategoryHits(Rel(scanner.projectPath, files[idx]), lineNum + 1,
                                Delivered(fs, files[idx])[lineNum + 1])
       IN  \E order \in CategoryOrders : issues' = issues \o LineIssues(hits, order)
    /\ UNCHANGED <<fs, args, pc, scanner, results, files, idx, remaining, buildSystems,
                   ret, out, prev, clock>>

\* a variant of Scan's loop that keeps the issues scanFile had found when it
\* returned an error
EndFile_KeepsPartial ==
    /\ pc = "lines"
    /\ lineNum = Len(Delivered(fs, files[idx]))
    /\ IF ReadErr(fs, files[idx])
       THEN results' = [results EXCEPT !.Issues = results.Issues \o issues]
       ELSE results' = [results EXCEPT !.Issues = results.Issues \o issues,
                                       !.ScannedFiles = results.ScannedFiles + 1]
    /\ idx' = idx + 1
    /\ pc' = "files"
    /\ lineNum' = 0
    /\ issues' = <<>>
    /\ UNCHANGED <<fs, args, scanner, files, remaining, buildSystems, ret, out, prev, clock>>

\* a variant of Scan's loop that counts a file whose scan returned an error
EndFile_CountsFailed ==
    /\ pc = "lines"
    /\ lineNum = Len(Delivered(fs, files[idx]))
    /\ results' = [results EXCEPT !.Issues = results.Issues \o issues,
                                  !.ScannedFiles = results.ScannedFiles + 1]
    /\ idx' = idx + 1
    /\ pc' = "files"
    /\ lineNum' = 0
    /\ issues' = <<>>
    /\ UNCHANGED <<fs, args, scanner, files, remaining, buildSystems, ret, out, prev, clock>>

\* scanFile returns: on an error Scan skips the file, otherwise it appends the
\* file's issues and counts the file
EndFile ==
    /\ pc = "lines"
    /\ lineNum = Len(Delivered(fs, files[idx]))
    /\ IF ReadErr(fs, files[idx])
       THEN UNCHANGED results
       ELSE results' = [results EXCEPT !.Issues = results.Issues \o issues,
                                       !.ScannedFiles = results.ScannedFiles + 1]
    /\ idx' = idx + 1
    /\ pc' = "files"
    /\ lineNum' = 0
    /\ issues' = <<>>
    /\ UNCHANGED <<fs, args, scanner, files, remaining, buildSystems, ret, out, prev, clock>>

\* the loop over the files is over: scanBuildSystems starts
BeginBuildSystems ==
    /\ pc = "files"
    /\ idx > Len(files)
    /\ pc' = "build"
    /\ remaining' = DOMAIN buildPatterns
    /\ buildSystems' = <<>>
    /\ UNCHANGED <<fs, args, scanner, results, files, idx, lineNum, issues, ret, out, prev,
                   clock>>

\* one turn of scanBuildSystems' range over buildPatterns
BuildPattern ==
    /\ pc = "build"
    /\ \E pattern \in remaining :
          /\ buildSystems' = BuildSystemsOf(fs, scanner.projectPath, pattern, buildSystems)
          /\ remaining' = remaining \ {pattern}
    /\ UNCHANGED <<fs, args, pc, scanner, results, files, idx, lineNum, issues, ret, out,
                   prev, clock>>

\* scanBuildSystems returns
EndBuildSystems ==
    /\ pc = "build"
    /\ remaining = {}
    /\ results' = [results EXCEPT !.BuildSystems = buildSystems]
    /\ buildSystems' = <<>>
    /\ pc' = "deps"
    /\ UNCHANGED <<fs, args, scanner, files, idx, lineNum, issues, remaining, ret, out, prev,
                   clock>>

\* scanDependencies
ScanDependencies ==
    /\ pc = "deps"
    /\ results' = [results EXCEPT !.Dependencies = scanDependencies(fs, scanner.projectPath)]
    /\ pc' = "recs"
    /\ UNCHANGED <<fs, args, scanner, files, idx, lineNum, issues, remaining, buildSystems,
                   ret, out, prev, clock>>

\* generateRecommendations, and Scan returns its results
ScanEnd ==
    /\ pc = "recs"
    /\ results' = [results EXCEPT !.Recommendations = generateRecommendations(results)]
    /\ ret' = [called |-> TRUE, report |-> results', err |-> "nil", cause |-> "nil"]
    /\ pc' = "returned"
    /\ UNCHANGED <<fs, args, scanner, files, idx, lineNum, issues, remaining, buildSystems,
                   out, prev, clock>>

\* runScan after Scan: the error is returned, or the results are rendered
Output ==
    /\ pc = "returned"
    /\ args.entry = "cmd"
    /\ out' = IF ret.err # "nil" THEN "scan failed" ELSE "rendered"
    /\ pc' = "exit"
    /\ UNCHANGED <<fs, args, scanner, results, files, idx, lineNum, issues, remaining,
                   buildSystems, ret, prev, clock>>

\* the run is over
Finished == pc = "exit" \/ (pc = "returned" /\ args.entry = "api")

\* the same scan is run again on the same tree
Rescan ==
    /\ Finished
    /\ clock < MaxScans
    /\ prev' = [ret |-> ret, out |-> out]
    /\ pc' = "idle"
    /\ scanner' = Nil
    /\ results' = Nil
    /\ files' = <<>>
    /\ idx' = 0
    /\ ret' = NotCalled
    /\ out' = "none"
    /\ UNCHANGED <<fs, args, lineNum, issues, remaining, buildSystems, clock>>

Next ==
    \/ RunScan
    \/ NewScanner
    \/ ScanBegin
    \/ OpenFile
    \/ ScanLine
    \/ EndFile
    \/ BeginBuildSystems
    \/ BuildPattern
    \/ EndBuildSystems
    \/ ScanDependencies
    \/ ScanEnd
    \/ Output
    \/ Rescan

Spec == Init /\ [][Next]_vars

\* ---------------------------------------------------------- properties

IsNil(x) == DOMAIN x = {"nil"}

\* Scan has returned a report and no error
Returned == ret.called /\ ret.err = "nil"

\* C1: for every file, line and category the Issues hold at most one Issue of
\* that (file, line, category): the first expression that matches wins.
SameSite(a, b) == a.File = b.File /\ a.Line = b.Line /\ a.Category = b.Category
OncePerCategory(iss) == \A i, j \in 1..Len(iss) : SameSite(iss[i], iss[j]) => i = j
C1_FirstMatchWins ==
    /\ OncePerCategory(issues)
    /\ ~IsNil(results) => OncePerCategory(results.Issues)

\* C2: in every state of the loop over the files and in every report returned,
\* 0 <= ScannedFiles <= TotalFiles; TotalFiles is the number of files the walk
\* returned and ScannedFiles counts each file at most once.
C2_ScannedWithinTotal ==
    /\ ~IsNil(results) =>
          /\ 0 <= results.ScannedFiles
          /\ results.ScannedFiles <= results.TotalFiles
    /\ pc \in {"files", "lines"} =>
          /\ results.TotalFiles = Len(files)
          /\ results.ScannedFiles <= idx - 1
    /\ Returned =>
          /\ 0 <= ret.report.ScannedFiles
          /\ ret.report.ScannedFiles <= ret.report.TotalFiles

\* a report is returned that counts fewer scanned files than files found
C2_Witness ==
    /\ Returned
    /\ ret.report.TotalFiles = 2
    /\ ret.report.ScannedFiles = 1

\* scanFile fails on the file: it cannot be opened, or reading it fails
ScanFails(tree, path) == OpenFails(tree, path) \/ ReadErr(tree, path)

\* some line scanFile reads from the file yields an Issue
HasIssue(tree, projectPath, path) ==
    \E n \in 1..Len(Delivered(tree, path)) :
        \E h \in CategoryHits(Rel(projectPath, path), n, Delivered(tree, path)[n]) :
            h[2] # <<>>

\* C3: when scanFile fails for files the walk returned, Scan still returns a
\* report, the report holds the Issues of the other files, and its
\* ScannedFiles is TotalFiles minus the number of files whose scan failed.
C3_FailedFilesAreSkipped ==
    (ret.called /\ getSourceFiles(fs, scanner.projectPath).err = "nil") =>
        /\ Returned
        /\ ~IsNil(ret.report)
        /\ ret.report.ScannedFiles =
              ret.report.TotalFiles
              - Cardinality({i \in 1..Len(files) : ScanFails(fs, files[i])})
        /\ \A i \in 1..Len(files) :
              (~ScanFails(fs, files[i]) /\ HasIssue(fs, scanner.projectPath, files[i])) =>
                  \E k \in 1..Len(ret.report.Issues) :
                      ret.report.Issues[k].File = Rel(scanner.projectPath, files[i])

\* the scan of the first file failed, the second file was scanned and reported
C3_Witness ==
    /\ Returned
    /\ Len(files) = 2
    /\ ScanFails(fs, files[1])
    /\ ~ScanFails(fs, files[2])
    /\ ret.report.ScannedFiles = 1
    /\ \E k \in 1..Len(ret.report.Issues) : ret.report.Issues[k].File = Rel(Root, files[2])

\* C4: when the root does not exist, Scan returns no report and an error that
\* wraps the path-not-found error, and the command fails with its own
\* path-not-found error before it makes a Scanner, calls Scan or renders.
C4_MissingRootNoReport ==
    args.path \notin DOMAIN fs =>
        /\ ret.called =>
              /\ IsNil(ret.report)
              /\ ret.err # "nil"
              /\ ret.cause = "ENOENT"
        /\ args.entry = "cmd" =>
              /\ IsNil(scanner)
              /\ ~ret.called
              /\ out # "rendered"
              /\ pc = "exit" => out = "path does not exist"

\* Scan was called on a missing root and has returned
C4_Witness ==
    /\ Root \notin DOMAIN fs
    /\ ret.called
    /\ IsNil(ret.report)
    /\ ret.cause = "ENOENT"

\* C5: whenever the root exists Scan returns a report and no error, whatever
\* fails below the root; a missing root is the only cause of an error.
C5_RootExistsNoError ==
    (args.path \in DOMAIN fs /\ ret.called) => (ret.err = "nil" /\ ~IsNil(ret.report))

\* the path lies beneath a directory, below the root, with an excluded name
UnderExcluded(tree, path) ==
    \E k \in (Len(Root) + 1)..(Len(path) - 1) :
        /\ path[k] \in SkipDirs
        /\ tree[SubSeq(path, 1, k)].kind = "dir"

ExcludedFree(iss) == \A i \in 1..Len(iss) : ~UnderExcluded(fs, Root \o iss[i].File)

\* C6: no file beneath a directory with an excluded name, at any depth, is
\* among the files counted in TotalFiles, scanned, or referenced by an Issue.
C6_ExcludedDirsPruned ==
    /\ \A i \in 1..Len(files) : ~UnderExcluded(fs, files[i])
    /\ ExcludedFree(issues)
    /\ ~IsNil(results) =>
          /\ results.TotalFiles = Len(files)
          /\ results.ScannedFiles <= Len(files)
          /\ ExcludedFree(results.Issues)
    /\ Returned => ExcludedFree(ret.report.Issues)

\* a report is returned for a tree that holds source files beneath excluded
\* directories, one directly below the root and one deeper
C6_Witness ==
    /\ Returned
    /\ {P_c_c, P_d_py} \subseteq DOMAIN fs
    /\ UnderExcluded(fs, P_c_c)
    /\ UnderExcluded(fs, P_d_py)
    /\ ret.report.TotalFiles = 2
    /\ ret.report.Issues # <<>>

\* C7: with recursive = false only the files directly in the root are
\* enumerated: no file of a subdirectory is counted or referenced by an Issue.
C7_NonRecursiveRootOnly ==
    (~IsNil(scanner) /\ ~scanner.config.recursive) =>
        /\ \A i \in 1..Len(files) : Len(files[i]) = Len(Root) + 1
        /\ ~IsNil(results) =>
              /\ results.TotalFiles
                    <= Cardinality({p \in DOMAIN fs :
                                       Len(p) = Len(Root) + 1 /\ fs[p].kind = "file"})
              /\ \A k \in 1..Len(results.Issues) : Len(results.Issues[k].File) = 1

\* the files of the tree whose name is an entry of the filename table
DescriptorFiles(tree) ==
    {p \in DOMAIN tree : tree[p].kind = "file" /\ Name(p) \in DOMAIN buildPatterns}

NoFaults(tree) == \A p \in DOMAIN tree : tree[p].fault = "none"

\* C8: the build systems of a report hold exactly one descriptor for each file
\* of the tree whose name is an entry of the filename table, at the root or
\* nested.
C8_OneDescriptorPerFile ==
    (Returned /\ NoFaults(fs)) =>
        LET b == ret.report.BuildSystems
        IN  /\ Len(b) = Cardinality(DescriptorFiles(fs))
            /\ {b[i].File : i \in 1..Len(b)} = {Rel(Root, p) : p \in DescriptorFiles(fs)}
            /\ \A i \in 1..Len(b) : b[i].System = buildPatterns[Name(b[i].File)]

\* two reports that are equal in every field but the time
SameButTime(a, b) ==
    IF IsNil(a) \/ IsNil(b) THEN IsNil(a) /\ IsNil(b)
    ELSE [a EXCEPT !.ScanTime = 0] = [b EXCEPT !.ScanTime = 0]

\* C9: two scans of the same tree with the same arguments return reports that
\* are equal in every field but the time, the order of every list included.
C9_RescanIdentical ==
    (~IsNil(prev) /\ prev.ret.called /\ ret.called) =>
        SameButTime(prev.ret.report, ret.report)

IndexOf(seq, x) == CHOOSE i \in 1..Len(seq) : seq[i] = x

\* where an Issue stands: the file's place in the traversal, the line, the
\* category's place in the rule table, the expression's place in the category
IssueKey(issue) ==
    <<IndexOf(files, Root \o issue.File), issue.Line,
      IndexOf(CategoryOrder, issue.Category),
      IndexOf(patterns[issue.Category], issue.Pattern)>>

RECURSIVE LexLess(_, _)
LexLess(a, b) ==
    IF a = <<>> \/ b = <<>> THEN FALSE
    ELSE Head(a) < Head(b) \/ (Head(a) = Head(b) /\ LexLess(Tail(a), Tail(b)))

\* C10: the Issues of a report are ordered by traversal order of the files,
\* then by line number, then by rule order on one line.
C10_IssuesInRuleOrder ==
    Returned =>
        \A k \in 1..(Len(ret.report.Issues) - 1) :
            LexLess(IssueKey(ret.report.Issues[k]), IssueKey(ret.report.Issues[k + 1]))

\* the Issue's line number is a line of the file the Issue references
IssueLineOk(tree, issue) ==
    LET path == Root \o issue.File
    IN  /\ path \in DOMAIN tree
        /\ 1 <= issue.Line
        /\ issue.Line <= Len(tree[path].lines)

\* the Issue's text is what its expression finds on the line of its number
MatchOnLine(tree, issue) ==
    LET line == tree[Root \o issue.File].lines[issue.Line]
        regex == Compile(issue.Pattern)
    IN  /\ regex.ok
        /\ issue.MatchedText # <<>>
        /\ FindString(regex.prog, line) = issue.MatchedText

\* C11: the line number n of every Issue satisfies 1 <= n <= the number of
\* lines of the Issue's file; lines are numbered from 1 in reading order and
\* the Issue carries the number of the line on which the match was found.
C11_LineNumbersInFile ==
    /\ \A i \in 1..Len(issues) :
          /\ IssueLineOk(fs, issues[i])
          /\ issues[i].Line <= lineNum
    /\ ~IsNil(results) => \A i \in 1..Len(results.Issues) : IssueLineOk(fs, results.Issues[i])
    /\ Returned =>
          \A i \in 1..Len(ret.report.Issues) :
              /\ IssueLineOk(fs, ret.report.Issues[i])
              /\ MatchOnLine(fs, ret.report.Issues[i])

\* a report holds an Issue on the last line of a file of five lines
C11_Witness ==
    /\ Returned
    /\ \E i \in 1..Len(ret.report.Issues) :
          /\ ret.report.Issues[i].Line = 5
          /\ Len(fs[Root \o ret.report.Issues[i].File].lines) = 5

\* the line is a call of the form _mm_<name>(...): it starts with a match of
\* the expression _mm_\w+\(
IsIntrinsicCall(line) ==
    LET regex == Compile(<<"_", "m", "m", "_", "\\", "w", "+", "\\", "(">>)
    IN  MatchHere(regex.prog, 1, line, 1) # 0

\* no expression of any category matches the line
MatchesNoRule(line) == \A h \in CategoryHits(<<>>, 0, line) : h[2] = <<>>

\* the indices of the Issues of a list on line n of a file
IssuesAt(iss, file, n) == {i \in 1..Len(iss) : iss[i].File = file /\ iss[i].Line = n}

\* C12: a scanned file whose line 5 holds `_mm_add_ps(a, b)` and whose other
\* lines match no rule yields exactly one Issue (x86_intrinsics, line 5,
\* high); and every line that is a call `_mm_<name>(...)` yields exactly one
\* Issue for that line.
C12_IntrinsicCallOneIssue ==
    Returned =>
        \A f \in 1..Len(files) :
            LET lines == fs[files[f]].lines
                file == Rel(Root, files[f])
                iss == ret.report.Issues
            IN  ~ScanFails(fs, files[f]) =>
                  /\ (/\ Len(lines) = 5
                      /\ lines[5] = L_call
                      /\ \A n \in 1..4 : MatchesNoRule(lines[n]))
                        => /\ Cardinality({i \in 1..Len(iss) : iss[i].File = file}) = 1
                           /\ \A i \in IssuesAt(iss, file, 5) :
                                 /\ iss[i].Category = "x86_intrinsics"
                                 /\ iss[i].Severity = "high"
                  /\ \A n \in 1..Len(lines) :
                        IsIntrinsicCall(lines[n]) => Cardinality(IssuesAt(iss, file, n)) = 1

\* the Dependencies of a list that come from one ecosystem, in order
RECURSIVE OfType(_, _)
OfType(deps, type) ==
    IF deps = <<>> THEN <<>>
    ELSE (IF Head(deps).Type = type THEN <<Head(deps)>> ELSE <<>>) \o OfType(Tail(deps), type)

\* the k-th smallest element of a set of numbers
Nth(S, k) == CHOOSE n \in S : Cardinality({m \in S : m < n}) = k - 1

\* C13: the requirements extractor skips blank lines and lines starting with
\* `#` and turns every other line, in order, into one python Dependency:
\* `name==version` gives (name, version), `name>=version` gives (name, `>=`
\* and the version), any other line gives (the line, `*`); `numpy==1.21.0`
\* gives (numpy, 1.21.0, python, unknown).  (The lines of the trees hold at
\* most one operator, with no blanks around it.)
C13_RequirementsLines ==
    (/\ Returned
     /\ ~OpenFails(fs, Join(scanner.projectPath, N_Requirements))
     /\ ~ReadErr(fs, Join(scanner.projectPath, N_Requirements))) =>
        LET lines == fs[Join(scanner.projectPath, N_Requirements)].lines
            kept == {n \in 1..Len(lines) :
                       /\ TrimSpace(lines[n]) # <<>>
                       /\ TrimSpace(lines[n])[1] # "#"}
            deps == OfType(ret.report.Dependencies, "python")
        IN  /\ Len(deps) = Cardinality(kept)
            /\ \A k \in 1..Len(deps) :
                  LET l == TrimSpace(lines[Nth(kept, k)])
                      d == deps[k]
                  IN  /\ d.ARMCompatible = "unknown"
                      /\ IF Contains(l, <<"=", "=">>)
                         THEN d.Name \o <<"=", "=">> \o d.Version = l
                         ELSE IF Contains(l, <<">", "=">>)
                         THEN /\ d.Name \o d.Version = l
                              /\ HasPrefix(d.Version, <<">", "=">>)
                         ELSE /\ d.Name = l
                              /\ d.Version = <<"*">>
            /\ (\E n \in 1..Len(lines) : lines[n] = L_pin) =>
                  \E k \in 1..Len(deps) :
                      deps[k] = [Name |-> <<"n", "u", "m", "p", "y">>,
                                 Version |-> <<"1", ".", "2", "1", ".", "0">>,
                                 Type |-> "python", ARMCompatible |-> "unknown"]

\* a report for a requirements file that holds a pin, a lower bound, a bare
\* name, a comment and blank lines
C13_Witness ==
    /\ Returned
    /\ P_requirements \in DOMAIN fs
    /\ {L_pin, L_lower, L_bare, L_comment, L_blank, <<>>}
          \subseteq {fs[P_requirements].lines[n] : n \in 1..Len(fs[P_requirements].lines)}
    /\ Len(OfType(ret.report.Dependencies, "python")) = 3

P_go_mod == <<N_proj, N_GoMod>>

RequireOpen == <<"r", "e", "q", "u", "i", "r", "e", " ", "(">>

\* line n is read inside the require block: some earlier line starts with
\* `require (` and no line between the two is `)`
InsideAt(lines, n) ==
    \E j \in 1..(n - 1) :
        /\ HasPrefix(TrimSpace(lines[j]), RequireOpen)
        /\ \A k \in (j + 1)..(n - 1) : TrimSpace(lines[k]) # <<")">>

\* line n is a line of the block that names a module and a version
NamesModule(lines, n) ==
    LET l == TrimSpace(lines[n])
    IN  /\ InsideAt(lines, n)
        /\ ~HasPrefix(l, RequireOpen)
        /\ l # <<")">>
        /\ l # <<>>
        /\ ~HasPrefix(l, <<"/", "/">>)
        /\ Len(Fields(l)) >= 2

\* C14: the go.mod extractor yields a Dependency only for a line read inside
\* the `require (` block, after a line starting with `require (` and before
\* the next line `)`; a line outside the block (a single-line require, a line
\* of a later block) yields none; inside, each non-blank line not starting
\* with `//` is split on white space into (module path, version).
C14_RequireBlockOnly ==
    (Returned /\ ~OpenFails(fs, Join(scanner.projectPath, N_GoMod)) /\ ~ReadErr(fs, Join(scanner.projectPath, N_GoMod))) =>
        LET lines == fs[Join(scanner.projectPath, N_GoMod)].lines
            kept == {n \in 1..Len(lines) : NamesModule(lines, n)}
            deps == OfType(ret.report.Dependencies, "go")
        IN  /\ Len(deps) = Cardinality(kept)
            /\ \A k \in 1..Len(deps) :
                  LET parts == Fields(lines[Nth(kept, k)])
                  IN  /\ deps[k].Name = parts[1]
                      /\ deps[k].Version = parts[2]
            /\ \A k \in 1..Len(deps) :
                  /\ deps[k].Name # <<"a", "/", "b">>
                  /\ deps[k].Name # <<"p", "/", "q">>
                  /\ deps[k].Name # <<"m", "o", "d", "u", "l", "e">>

\* a report for a go.mod that holds a single-line require, a require block
\* with a module, a comment and a blank line, and a replace block after it
C14_Witness ==
    /\ Returned
    /\ fs = ManifestTree
    /\ {L_require1, L_open, L_dep, L_gocomment, L_replace, L_repl}
          \subseteq {fs[P_go_mod].lines[n] : n \in 1..Len(fs[P_go_mod].lines)}
    /\ OfType(ret.report.Dependencies, "go")
          = <<[Name |-> <<"x", "/", "y">>, Version |-> <<"v", "1", ".", "2", ".", "3">>,
               Type |-> "go", ARMCompatible |-> "unknown"]>>

P_package_json == <<N_proj, N_PackageJson>>
P_Cargo_toml == <<N_proj, N_CargoToml>>

\* the Dependency that stands for a manifest that is detected and not parsed
Sentinel(name, type) ==
    [Name |-> name, Version |-> "detected", Type |-> type, ARMCompatible |-> "unknown"]

\* C15: the Dependencies hold exactly one sentinel for package.json and one
\* for Cargo.toml when the file is present at the root, and none when it is
\* absent, whatever the file holds: it is never read.
C15_ShallowSentinels ==
    Returned =>
        /\ OfType(ret.report.Dependencies, "npm")
              = IF Join(scanner.projectPath, N_PackageJson) \in DOMAIN fs
                THEN <<Sentinel("npm-dependencies", "npm")>> ELSE <<>>
        /\ OfType(ret.report.Dependencies, "cargo")
              = IF Join(scanner.projectPath, N_CargoToml) \in DOMAIN fs
                THEN <<Sentinel("cargo-dependencies", "cargo")>> ELSE <<>>

\* a report for a tree whose package.json is present and cannot be opened and
\* whose Cargo.toml is absent
C15_Witness ==
    /\ Returned
    /\ P_package_json \in DOMAIN fs
    /\ OpenFails(fs, P_package_json)
    /\ P_Cargo_toml \notin DOMAIN fs
    /\ Len(OfType(ret.report.Dependencies, "npm")) = 1
    /\ OfType(ret.report.Dependencies, "cargo") = <<>>

AllUnknown(deps) == \A i \in 1..Len(deps) : deps[i].ARMCompatible = "unknown"

\* C16: every Dependency of the results of a scan and of every report
\* returned, from any extractor, has compatibility status unknown.
C16_CompatibilityUnknown ==
    /\ ~IsNil(results) => AllUnknown(results.Dependencies)
    /\ Returned => AllUnknown(ret.report.Dependencies)
    /\ (~IsNil(prev) /\ ~IsNil(prev.ret.report)) => AllUnknown(prev.ret.report.Dependencies)

\* a report holds Dependencies of the npm, python and go extractors
C16_Witness ==
    /\ Returned
    /\ OfType(ret.report.Dependencies, "npm") # <<>>
    /\ OfType(ret.report.Dependencies, "python") # <<>>
    /\ OfType(ret.report.Dependencies, "go") # <<>>

\* the manifest of each ecosystem, in the root of the scan
ManifestOf ==
    [npm |-> Join(scanner.projectPath, N_PackageJson),
     python |-> Join(scanner.projectPath, N_Requirements),
     cargo |-> Join(scanner.projectPath, N_CargoToml),
     go |-> Join(scanner.projectPath, N_GoMod)]

\* C17: an ecosystem whose manifest is absent from the root contributes no
\* Dependency, the Dependencies of the other ecosystems are still collected,
\* and the scan returns its report and no error.
C17_AbsentManifestNoError ==
    (ret.called /\ getSourceFiles(fs, scanner.projectPath).err = "nil") =>
        /\ Returned
        /\ LET deps == ret.report.Dependencies
           IN  /\ \A type \in DOMAIN ManifestOf :
                     ManifestOf[type] \notin DOMAIN fs => OfType(deps, type) = <<>>
               /\ deps = OfType(deps, "npm") \o OfType(deps, "python")
                         \o OfType(deps, "cargo") \o OfType(deps, "go")
               /\ ManifestOf.npm \in DOMAIN fs => OfType(deps, "npm") # <<>>
               /\ ManifestOf.cargo \in DOMAIN fs => OfType(deps, "cargo") # <<>>
               /\ (/\ ~OpenFails(fs, ManifestOf.python)
                   /\ ~ReadErr(fs, ManifestOf.python)
                   /\ \E n \in 1..Len(fs[ManifestOf.python].lines) :
                         fs[ManifestOf.python].lines[n] \in {L_pin, L_lower, L_bare})
                     => OfType(deps, "python") # <<>>
               /\ (/\ ~OpenFails(fs, ManifestOf.go)
                   /\ ~ReadErr(fs, ManifestOf.go)
                   /\ \E n \in 1..Len(fs[ManifestOf.go].lines) :
                         NamesModule(fs[ManifestOf.go].lines, n))
                     => OfType(deps, "go") # <<>>

\* a report for a tree without package.json, Cargo.toml and go.mod holds the
\* Dependencies of requirements.txt
C17_Witness ==
    /\ Returned
    /\ {P_package_json, P_Cargo_toml, P_go_mod} \cap DOMAIN fs = {}
    /\ ret.report.Dependencies # <<>>
    /\ ret.report.Dependencies = OfType(ret.report.Dependencies, "python")

\* the indices of the recommendations with a given format
WithFmt(recs, fmts) == {i \in 1..Len(recs) : recs[i].fmt \in fmts}

CleanFmt == "No obvious x86-specific code detected"
FoundFmt == "Found %d potential compatibility issues"
HighFmt == "%d high-severity issues require immediate attention"
DepsFmt == "%d dependencies found - verify ARM compatibility"

\* C18: the recommendations of a report start with the clean-scan message
\* (no Issue) or the message with the number of Issues, and hold no other
\* such message; they hold one high-severity message iff an Issue has
\* severity high, and one message with the number of Dependencies iff there
\* is a Dependency; they are a function of the report alone.
C18_RecommendationMessages ==
    Returned =>
        LET r == ret.report
            recs == r.Recommendations
            n == Len(r.Issues)
            high == Cardinality({i \in 1..n : r.Issues[i].Severity = "high"})
            d == Len(r.Dependencies)
        IN  /\ recs # <<>>
            /\ recs[1] = IF n = 0 THEN Rec(CleanFmt, <<>>) ELSE Rec(FoundFmt, <<n>>)
            /\ WithFmt(recs, {CleanFmt, FoundFmt}) = {1}
            /\ Cardinality(WithFmt(recs, {HighFmt})) = IF high > 0 THEN 1 ELSE 0
            /\ \A i \in WithFmt(recs, {HighFmt}) : recs[i].args = <<high>>
            /\ Cardinality(WithFmt(recs, {DepsFmt})) = IF d > 0 THEN 1 ELSE 0
            /\ \A i \in WithFmt(recs, {DepsFmt}) : recs[i].args = <<d>>
            /\ recs = generateRecommendations([r EXCEPT !.ScanTime = 0,
                                                        !.Recommendations = <<>>])
            /\ (~IsNil(prev) /\ ~IsNil(prev.ret.report)
                /\ prev.ret.report.Issues = r.Issues
                /\ prev.ret.report.BuildSystems = r.BuildSystems
                /\ prev.ret.report.Dependencies = r.Dependencies)
                  => prev.ret.report.Recommendations = recs

\* a report with Issues, some of them of severity high, and Dependencies
C18_Witness ==
    /\ Returned
    /\ \E i \in 1..Len(ret.report.Issues) : ret.report.Issues[i].Severity = "high"
    /\ \E i \in 1..Len(ret.report.Issues) : ret.report.Issues[i].Severity # "high"
    /\ ret.report.Dependencies # <<>>
    /\ Len(ret.report.Recommendations) >= 3

CMakeFmt == "CMake detected - review CMakeLists.txt for architecture-specific settings"
MakeFmt == "Makefile detected - review for architecture-specific compiler flags"

\* C19: the recommendations hold exactly one review message for each distinct
\* build-system type of the report's build systems, for every type of the
\* table, and none for a type that is not present.
C19_ReviewPerBuildType ==
    Returned =>
        LET recs == ret.report.Recommendations
            b == ret.report.BuildSystems
            types == {b[i].System : i \in 1..Len(b)}
            review == (1..Len(recs)) \ WithFmt(recs, {CleanFmt, FoundFmt, HighFmt, DepsFmt})
        IN  /\ types \subseteq {buildPatterns[n] : n \in DOMAIN buildPatterns}
            /\ Cardinality(review) = Cardinality(types)
            /\ Cardinality(WithFmt(recs, {CMakeFmt})) = IF "cmake" \in types THEN 1 ELSE 0
            /\ Cardinality(WithFmt(recs, {MakeFmt})) = IF "make" \in types THEN 1 ELSE 0

\* category names that are no key of the severity and suggestion maps
OtherCategories == {"", "simd", "INLINE_ASSEMBLY", "x86_intrinsics ", "low", "build_system"}

\* matched texts getSuggestion is called with
MatchedTexts == {"", "_mm_add_ps(", "__asm__", "#ifdef __x86_64__"}

HighCategories == {"inline_assembly", "x86_intrinsics"}
MediumCategories == {"architecture_checks", "platform_specific"}

\* C20: severity and remediation text depend on the category alone and are
\* defined for every category: high for inline_assembly and x86_intrinsics,
\* medium for architecture_checks and platform_specific, low otherwise; the
\* category's text or the generic review message otherwise; so two Issues of
\* a report with one category agree on both, and every severity is high,
\* medium or low.
C20_SeverityByCategory ==
    /\ \A c \in HighCategories : getSeverity(c) = "high"
    /\ \A c \in MediumCategories : getSeverity(c) = "medium"
    /\ \A c \in OtherCategories : /\ getSeverity(c) = "low"
                                  /\ \A t \in MatchedTexts :
                                        getSuggestion(c, t) = "Review for ARM compatibility"
    /\ \A c \in Categories : \A t, u \in MatchedTexts :
          /\ getSuggestion(c, t) = getSuggestion(c, u)
          /\ getSuggestion(c, t) # "Review for ARM compatibility"
    /\ Categories = HighCategories \cup MediumCategories
    /\ Returned /\ ~IsNil(ret.report) =>
          LET is == ret.report.Issues
          IN  \A i \in 1..Len(is) :
                /\ is[i].Severity \in {"high", "medium", "low"}
                /\ is[i].Severity =
                      IF is[i].Category \in HighCategories THEN "high"
                      ELSE IF is[i].Category \in MediumCategories THEN "medium"
                      ELSE "low"
                /\ \A t \in MatchedTexts \cup {is[i].MatchedText} :
                      is[i].Suggestion = getSuggestion(is[i].Category, t)
                /\ \A j \in 1..Len(is) :
                      is[i].Category = is[j].Category =>
                          /\ is[i].Severity = is[j].Severity
                          /\ is[i].Suggestion = is[j].Suggestion

\* a returned report holds two Issues of one high category with different
\* matched texts, and an Issue of a medium category
C20_Witness ==
    /\ Returned /\ ~IsNil(ret.report)
    /\ LET is == ret.report.Issues
       IN  /\ \E i, j \in 1..Len(is) :
                /\ i # j
                /\ is[i].Category = "x86_intrinsics"
                /\ is[j].Category = "x86_intrinsics"
                /\ is[i].MatchedText # is[j].MatchedText
           /\ \E k \in 1..Len(is) : is[k].Category \in MediumCategories

\* the path is, or lies beneath, a directory with an excluded name, the root
\* included
InExcluded(tree, root, path) ==
    \E k \in Len(root)..(Len(path) - 1) :
        /\ path[k] \in SkipDirs
        /\ tree[SubSeq(path, 1, k)].kind = "dir"

\* the files below the root, outside the excluded directories, whose
\* extension is supported when written in lower case
Candidates(tree, root) ==
    {p \in DOMAIN tree :
        /\ IsPrefix(root, p)
        /\ tree[p].kind = "file"
        /\ ~InExcluded(tree, root, p)
        /\ ToLower(Ext(Name(p))) \in extensions}

\* depth-first order with the entries of a directory in name order: a
\* directory before what it holds, and names compared byte by byte
RECURSIVE PathLess(_, _)
PathLess(p, q) ==
    IF p = <<>> THEN q # <<>>
    ELSE IF q = <<>> THEN FALSE
    ELSE IF Head(p) = Head(q) THEN PathLess(Tail(p), Tail(q))
    ELSE StrLess(Head(p), Head(q))

\* Scan holds the files of a walk that returned no error
Walked == pc \in {"files", "lines", "build", "deps", "recs"} \/ Returned

\* C21: the walk returns exactly the files under the root, outside every
\* excluded directory, whose extension in lower case is supported (b.CPP is
\* one, requirements.txt is none), each once, in depth-first order; the
\* sequence is fixed by the tree, so every walk of the tree returns it.
C21_WalkReturnsCandidates ==
    Walked =>
        /\ {files[i] : i \in 1..Len(files)} = Candidates(fs, scanner.projectPath)
        /\ \A i \in 1..(Len(files) - 1) : PathLess(files[i], files[i + 1])
        /\ (scanner.projectPath = Root /\ P_b_CPP \in DOMAIN fs) =>
              \E i \in 1..Len(files) : files[i] = P_b_CPP
        /\ \A i \in 1..Len(files) :
              Name(files[i]) \notin {N_Requirements, N_CMakeLists, N_Makefile}
        /\ (~IsNil(prev) /\ prev.ret.called /\ prev.ret.err = "nil") =>
              Len(files) = prev.ret.report.TotalFiles

\* a second walk of a tree that holds b.CPP, text files and files beneath
\* excluded directories has returned two files
C21_Witness ==
    /\ Walked
    /\ ~IsNil(prev)
    /\ prev.ret.called
    /\ {P_b_CPP, P_requirements, P_c_c, P_d_py} \subseteq DOMAIN fs
    /\ files = <<P_a_c, P_b_CPP>>

\* C22: for every file of the tree, at any depth, whose name is an entry of
\* the filename table, the build systems of the report hold a descriptor with
\* the file's path relative to the root; and every descriptor needs review
\* and carries the system the table gives for the name of its file.
C22_DescriptorsAtEveryDepth ==
    Returned =>
        LET b == ret.report.BuildSystems
            root == scanner.projectPath
        IN  /\ \A p \in DescriptorFiles(fs) :
                  IsPrefix(root, p) => \E i \in 1..Len(b) : root \o b[i].File = p
            /\ \A i \in 1..Len(b) :
                  /\ b[i].NeedsReview
                  /\ b[i].System = buildPatterns[Name(b[i].File)]

\* every Issue of the list names, relative to the root, a file of `files`
Traversed(iss) ==
    \A i \in 1..Len(iss) :
        \E k \in 1..Len(files) : files[k] = scanner.projectPath \o iss[i].File

\* C23: every Issue, of the file being scanned, of the results and of the
\* report, references by its path relative to the root a file the walk of
\* this scan returned, and these files are the ones TotalFiles counts.
C23_IssuesReferenceWalkedFiles ==
    /\ Traversed(issues)
    /\ pc = "lines" =>
          \A i \in 1..Len(issues) : scanner.projectPath \o issues[i].File = files[idx]
    /\ (Walked /\ ~IsNil(results)) =>
          /\ Traversed(results.Issues)
          /\ results.TotalFiles = Len(files)
    /\ Returned =>
          /\ Traversed(ret.report.Issues)
          /\ ret.report.TotalFiles = Len(files)

\* a report holds an Issue of a file of the root and one of a file below it
C23_Witness ==
    /\ Returned
    /\ \E i, j \in 1..Len(ret.report.Issues) :
          /\ Len(ret.report.Issues[i].File) = 1
          /\ Len(ret.report.Issues[j].File) = 2

\* C24: no step of a scan changes the project tree: the files and
\* directories under the root and the lines of each file stay what they were
\* when the scan started, whether Scan returns a report or an error.
C24_ScanReadsOnly == [][fs' = fs]_vars

\* Scan has returned a report after reading a source file and a manifest
C24_Witness ==
    /\ Returned
    /\ ret.report.ScannedFiles >= 1
    /\ ret.report.Issues # <<>>
    /\ OfType(ret.report.Dependencies, "python") # <<>>

\* expressions regexp.Compile rejects: `(`, `*x`, `x\` and `a**`
Malformed == {<<"(">>, <<"*", "x">>, <<"x", "\\">>, <<"a", "*", "*">>}

\* the sequence with x put after its first pos elements
InsertAt(seq, pos, x) == SubSeq(seq, 1, pos) \o <<x>> \o SubSeq(seq, pos + 1, Len(seq))

\* the line scanFile has read last
LineRead == Delivered(fs, files[idx])[lineNum]

\* C25: an expression that does not compile yields no Issue and stops
\* nothing: for the line just read and every category, the Issues found with
\* a malformed expression at the head or at the end of the category's list
\* are the Issues found without it.
C25_MalformedRuleIgnored ==
    /\ \A bad \in Malformed : ~Compile(bad).ok
    /\ (pc = "lines" /\ lineNum >= 1) =>
          \A category \in Categories :
              LET rel == Rel(scanner.projectPath, files[idx])
                  without == MatchPatterns(rel, lineNum, LineRead, category, 1)
              IN  \A bad \in Malformed : \A pos \in {0, Len(patterns[category])} :
                      LET with == MatchRules(InsertAt(patterns[category], pos, bad), rel,
                                             lineNum, LineRead, category, 1)
                      IN  /\ with = without
                          /\ \A i \in 1..Len(with) : with[i].Pattern # bad

\* a line has been read on which a category's list with a malformed
\* expression at its head yields two Issues
C25_Witness ==
    /\ pc = "lines"
    /\ lineNum >= 1
    /\ \E category \in Categories : \E bad \in Malformed :
          Len(MatchRules(<<bad>> \o patterns[category],
                         Rel(scanner.projectPath, files[idx]), lineNum, LineRead,
                         category, 1)) = 2

\* the files the Issues of a list reference
Referenced(iss) == {iss[i].File : i \in 1..Len(iss)}

\* every Issue of the list references a file whose scan returned no error, and
\* the list references no more files than were counted as scanned
FromScannedFiles(iss, scanned) ==
    /\ \A f \in Referenced(iss) : ~ScanFails(fs, scanner.projectPath \o f)
    /\ Cardinality(Referenced(iss)) <= scanned

\* C26: the Issues of a file reach the results all together or not at all:
\* when reading a file fails after lines of it were matched, its Issues are
\* dropped; every Issue of the results and of a report references a file that
\* was counted in ScannedFiles, and the Issues reference at most ScannedFiles
\* files.
C26_IssuesAllOrNothing ==
    /\ (Walked /\ ~IsNil(results)) =>
          FromScannedFiles(results.Issues, results.ScannedFiles)
    /\ Returned => FromScannedFiles(ret.report.Issues, ret.report.ScannedFiles)
    /\ (pc = "files" /\ idx > 1 /\ ~ScanFails(fs, files[idx - 1])) =>
          \A n \in 1..Len(fs[files[idx - 1]].lines) :
              \A h \in CategoryHits(Rel(scanner.projectPath, files[idx - 1]), n,
                                    fs[files[idx - 1]].lines[n]) :
                  \A k \in 1..Len(h[2]) :
                      \E i \in 1..Len(results.Issues) : results.Issues[i] = h[2][k]

\* a report is returned after reading a.c failed behind a line that matched:
\* no Issue references a.c and the Issues of another file are there
C26_Witness ==
    /\ Returned
    /\ P_a_c \in DOMAIN fs
    /\ fs[P_a_c].fault = "read"
    /\ fs[P_a_c].after >= 1
    /\ HasIssue(fs, scanner.projectPath, P_a_c)
    /\ Rel(Root, P_a_c) \notin Referenced(ret.report.Issues)
    /\ ret.report.Issues # <<>>

\* the place in the walk of the file an Issue references
FileIndex(issue) == IndexOf(files, scanner.projectPath \o issue.File)

\* each Issue of the list is followed by one of a later file of the walk, or
\* of the same file and not of an earlier line
ByFileThenLine(iss) ==
    \A i \in 1..(Len(iss) - 1) :
        \/ FileIndex(iss[i]) < FileIndex(iss[i + 1])
        \/ /\ FileIndex(iss[i]) = FileIndex(iss[i + 1])
           /\ iss[i].Line <= iss[i + 1].Line

\* C27: in whatever order the categories are ranged over, the Issues are
\* grouped by file, the files in the order of the walk, and within a file the
\* line numbers of successive Issues never decrease.
C27_GroupedByFileThenLine ==
    /\ ByFileThenLine(issues)
    /\ (Walked /\ ~IsNil(results)) => ByFileThenLine(results.Issues)
    /\ Returned => ByFileThenLine(ret.report.Issues)

\* a report holds Issues of two files, of two lines of one file, and on one
\* line an Issue of a category before one of a category registered earlier
C27_Witness ==
    /\ Returned
    /\ LET iss == ret.report.Issues
       IN  /\ \E i, j \in 1..Len(iss) : iss[i].File # iss[j].File
           /\ \E i, j \in 1..Len(iss) :
                 iss[i].File = iss[j].File /\ iss[i].Line < iss[j].Line
           /\ \E i \in 1..(Len(iss) - 1) :
                 /\ iss[i].File = iss[i + 1].File
                 /\ iss[i].Line = iss[i + 1].Line
                 /\ IndexOf(CategoryOrder, iss[i].Category)
                       > IndexOf(CategoryOrder, iss[i + 1].Category)

\* C28: the excluded names prune the walk of the source files only: a file
\* whose name is an entry of the filename table and that lies beneath a
\* directory with an excluded name has its descriptor in the build systems of
\* the report, while no file beneath such a directory is among the files
\* walked or is referenced by an Issue.
C28_SkipSetSourceWalkOnly ==
    Returned =>
        LET b == ret.report.BuildSystems
            root == scanner.projectPath
        IN  /\ \A p \in DescriptorFiles(fs) :
                  (IsPrefix(root, p) /\ InExcluded(fs, root, p)) =>
                      \E i \in 1..Len(b) : root \o b[i].File = p
            /\ \A i \in 1..Len(files) : ~InExcluded(fs, root, files[i])
            /\ \A f \in Referenced(ret.report.Issues) : ~InExcluded(fs, root, root \o f)
            /\ ret.report.TotalFiles = Len(files)

\* the place of each ecosystem in the Dependencies
TypeRank == [npm |-> 1, python |-> 2, cargo |-> 3, go |-> 4]

\* the lines of the manifest `name` of the directory dir that the extractors
\* read: none when the file is absent or cannot be read
ManifestLines(tree, dir, name) ==
    LET path == Join(dir, name)
    IN  IF OpenFails(tree, path) \/ ReadErr(tree, path) THEN <<>> ELSE tree[path].lines

\* the lines of a requirements file that are neither blank nor a comment
Requirement(lines) ==
    {n \in 1..Len(lines) : TrimSpace(lines[n]) # <<>> /\ TrimSpace(lines[n])[1] # "#"}

\* the manifests of the tree that lie below the root, not directly in it
NestedManifests(tree, root) ==
    {p \in DOMAIN tree :
        /\ IsPrefix(root, p)
        /\ Len(p) > Len(root) + 1
        /\ tree[p].kind = "file"
        /\ Name(p) \in {N_Requirements, N_GoMod, N_PackageJson, N_CargoToml}}

ExcludedRoot ==
    /\ ~IsNil(scanner)
    /\ scanner.projectPath \in DOMAIN fs
    /\ fs[scanner.projectPath].kind = "dir"
    /\ fs[scanner.projectPath].fault = "none"
    /\ Name(scanner.projectPath) \in SkipDirs

\* C30: the test of the excluded names is applied to the root itself: when
\* the last component of the root is an excluded name the walk prunes the
\* root and returns no error and no file, and the report has TotalFiles = 0,
\* ScannedFiles = 0 and no Issue, whatever the directory holds.
C30_ExcludedRootIsPruned ==
    ExcludedRoot =>
        /\ getSourceFiles(fs, scanner.projectPath) = [acc |-> <<>>, err |-> "nil"]
        /\ files = <<>>
        /\ issues = <<>>
        /\ pc \notin {"lines"}
        /\ ret.called =>
              /\ Returned
              /\ ret.report.TotalFiles = 0
              /\ ret.report.ScannedFiles = 0
              /\ ret.report.Issues = <<>>

\* the command has rendered the report of a scan of proj/build, which holds
\* the source file c.c with a line that a rule matches
C30_Witness ==
    /\ ExcludedRoot
    /\ Returned
    /\ out = "rendered"
    /\ scanner.projectPath = P_build
    /\ P_c_c \in DOMAIN fs
    /\ ToLower(Ext(Name(P_c_c))) \in extensions
    /\ HasIssue(fs, P_build, P_c_c)
    /\ ret.report.TotalFiles = 0

====
